---- MODULE Spec2Model ----
(***************************************************************************)
(* Resumate matching/scoring engine: backend/utils/scoring.py and          *)
(* backend/agents/matching_agent.py.                                       *)
(*                                                                         *)
(* Representation.                                                         *)
(*  - A Python str is a sequence of one-character strings; "ENDASH" stands *)
(*    for the single code point U+2013.                                    *)
(*  - A sub-score in [0,1] is an integer number of hundredths (0..100).    *)
(*  - A weight is an integer number of twentieths (0.55 = 11, 0.30 = 6,    *)
(*    0.15 = 3, 0.65 = 13, 0.35 = 7, 0.6 = 12, 0.1 = 2).                   *)
(*  - The weighted score is an exact rational: first in units of 1/2000    *)
(*    (twentieths times hundredths), after the normalisation stage in      *)
(*    units of 1/One, One = 2000*30*50*100, fine enough for the 4/3 and    *)
(*    11/10 slopes of the curve and the 1.02 and 1.01 boosts to be exact.  *)
(*  - The returned score (0..100 with two decimals) is an integer number   *)
(*    of hundredths of a percent (0..10000).                               *)
(***************************************************************************)
EXTENDS Integers, Sequences, FiniteSets, TLC

VARIABLES
    sIn, sApplied, sOut, sPc,   \* one call of compute_suitability_score
    kIn, kRatio, kOut, kPc,     \* one call of compute_skill_overlap_score without a model
    mIn, mLocals, mOut, mPc,    \* one call of MatchingAgent.match
    bIn, bI, bResults, bRaised, bOut, bPc,   \* one call of MatchingAgent.batch_match
    fIn, fOut, fPc,   \* one call of one function
    hHeap, hInit, hLast, hCalls,   \* a sequence of calls on one MatchingAgent
    eCache, eBuilt, eHeld, eCalls, ePc   \* a sequence of match calls and the lru_cache of the embedding model

suitVars == <<sIn, sApplied, sOut, sPc>>

skillVars == <<kIn, kRatio, kOut, kPc>>

matchVars == <<mIn, mLocals, mOut, mPc>>

batchVars == <<bIn, bI, bResults, bRaised, bOut, bPc>>

fnVars == <<fIn, fOut, fPc>>

sessVars == <<hHeap, hInit, hLast, hCalls>>

embedVars == <<eCache, eBuilt, eHeld, eCalls, ePc>>

vars == <<suitVars, skillVars, matchVars, batchVars, fnVars, sessVars, embedVars>>

----------------------------------------------------------------------------
(* Generic helpers *)

Max(a, b) == IF a >= b THEN a ELSE b

Min(a, b) == IF a <= b THEN a ELSE b

\* Python None where a float or a mapping is expected
None == -9999

\* weights=None : a mapping value distinct from every weights mapping
NoWeights == [none |-> 0]

\* Python "term in text"
Contains(text, term) ==
    \E i \in 1..(Len(text) - Len(term) + 1) :
        SubSeq(text, i, i + Len(term) - 1) = term

LowerOf ==
    [ c \in {"A", "B", "C", "D", "E", "F", "G", "H", "I", "J", "K", "L", "M", "N", "O", "P", "Q", "R", "S", "T", "U", "V", "W", "X", "Y", "Z"} |->
        CASE c = "A" -> "a"
          [] c = "B" -> "b"
          [] c = "C" -> "c"
          [] c = "D" -> "d"
          [] c = "E" -> "e"
          [] c = "F" -> "f"
          [] c = "G" -> "g"
          [] c = "H" -> "h"
          [] c = "I" -> "i"
          [] c = "J" -> "j"
          [] c = "K" -> "k"
          [] c = "L" -> "l"
          [] c = "M" -> "m"
          [] c = "N" -> "n"
          [] c = "O" -> "o"
          [] c = "P" -> "p"
          [] c = "Q" -> "q"
          [] c = "R" -> "r"
          [] c = "S" -> "s"
          [] c = "T" -> "t"
          [] c = "U" -> "u"
          [] c = "V" -> "v"
          [] c = "W" -> "w"
          [] c = "X" -> "x"
          [] c = "Y" -> "y"
          [] c = "Z" -> "z" ]

LowerChar(c) == IF c \in DOMAIN LowerOf THEN LowerOf[c] ELSE c

\* str.lower()
lower(s) == [i \in 1..Len(s) |-> LowerChar(s[i])]

----------------------------------------------------------------------------
(* Python str helpers *)

Whitespace == {" ", "TAB", "NL"}

Range(seq) == { seq[i] : i \in 1..Len(seq) }

\* str.lstrip(); also the trailing \s* of a regular expression
RECURSIVE lstrip(_)
lstrip(s) ==
    IF s # <<>> /\ Head(s) \in Whitespace THEN lstrip(Tail(s)) ELSE s

\* str.rstrip()
RECURSIVE rstrip(_)
rstrip(s) ==
    IF s # <<>> /\ s[Len(s)] \in Whitespace THEN rstrip(SubSeq(s, 1, Len(s) - 1)) ELSE s

\* str.strip()
strip(s) == rstrip(lstrip(s))

\* index of the first element of s at or after i that is in chars, 0 if none
RECURSIVE FirstIndex(_, _, _)
FirstIndex(s, chars, i) ==
    IF i > Len(s) THEN 0
    ELSE IF s[i] \in chars THEN i
    ELSE FirstIndex(s, chars, i + 1)

\* s[:len(p)].lower() == p
StartsWithCI(s, p) ==
    Len(s) >= Len(p) /\ lower(SubSeq(s, 1, Len(p))) = p

----------------------------------------------------------------------------
(* scoring.py: normalize_skill *)

\* re.sub(r'^[^:|\-]+[:|\-|]\s*', '', skill): one or more characters other
\* than ':', '|', '-', then one of these three, then any whitespace
strip_category_prefix(s) ==
    LET sep == FirstIndex(s, {":", "|", "-"}, 1)
    IN  IF sep <= 1
        THEN s
        ELSE lstrip(SubSeq(s, sep + 1, Len(s)))

\* the single-word alternatives of the second pattern: skills?, technologies?, ...
CategoryLabels ==
    { <<"s","k","i","l","l">>,
      <<"s","k","i","l","l","s">>,
      <<"t","e","c","h","n","o","l","o","g","i","e">>,
      <<"t","e","c","h","n","o","l","o","g","i","e","s">>,
      <<"t","o","o","l">>,
      <<"t","o","o","l","s">>,
      <<"l","a","n","g","u","a","g","e">>,
      <<"l","a","n","g","u","a","g","e","s">>,
      <<"f","r","a","m","e","w","o","r","k">>,
      <<"f","r","a","m","e","w","o","r","k","s">>,
      <<"d","a","t","a","b","a","s","e">>,
      <<"d","a","t","a","b","a","s","e","s">>,
      <<"p","l","a","t","f","o","r","m">>,
      <<"p","l","a","t","f","o","r","m","s">> }

\* the two-word alternatives: agentic\s+ai and ai/ml\s+tools?
CategoryLabels2 ==
    { << <<"a","g","e","n","t","i","c">>, <<"a","i">> >>,
      << <<"a","i","/","m","l">>, <<"t","o","o","l">> >>,
      << <<"a","i","/","m","l">>, <<"t","o","o","l","s">> >> }

\* what is left of s after "<label>:" and the whitespace that follows it
AfterLabel(s, label) ==
    lstrip(SubSeq(s, Len(label) + 2, Len(s)))

MatchesLabel(s, label) ==
    StartsWithCI(s, label) /\ Len(s) > Len(label) /\ s[Len(label) + 1] = ":"

\* s with the first word and the whitespace after it removed (\s+ needs some)
AfterWord(s, w) ==
    lstrip(SubSeq(s, Len(w) + 1, Len(s)))

MatchesLabel2(s, pair) ==
    /\ StartsWithCI(s, pair[1])
    /\ Len(s) > Len(pair[1])
    /\ s[Len(pair[1]) + 1] \in Whitespace
    /\ MatchesLabel(AfterWord(s, pair[1]), pair[2])

\* s without the label that matched: one of the single words in one, or else
\* one of the pairs in two (a str starts with at most one "<label>:")
cut_label(s, one, two) ==
    IF one # {} THEN AfterLabel(s, CHOOSE l \in one : TRUE)
    ELSE IF two # {} THEN AfterLabel(AfterWord(s, (CHOOSE p \in two : TRUE)[1]),
                                     (CHOOSE p \in two : TRUE)[2])
    ELSE s

\* re.sub(r'^(skills?|...|agentic\s+ai|ai/ml\s+tools?):\s*', '', skill, IGNORECASE)
strip_known_label(s) ==
    cut_label(s, { l \in CategoryLabels : MatchesLabel(s, l) },
                 { p \in CategoryLabels2 : MatchesLabel2(s, p) })

\* re.sub(r'[.,:;!?()\[\]{}]', '', normalized)
strip_punctuation(s) ==
    LET Keep(c) == c \notin {".", ",", ":", ";", "!", "?", "(", ")", "[", "]", "{", "}"}
    IN  SelectSeq(s, Keep)

normalize_skill(skill) ==
    IF skill = <<>> THEN <<>>
    ELSE strip(strip_punctuation(strip(lower(
             strip(strip_known_label(strip(strip_category_prefix(skill))))))))

\* [normalize_skill(s) for s in skills]
normalize_all(skills) ==
    [ i \in 1..Len(skills) |-> normalize_skill(skills[i]) ]

----------------------------------------------------------------------------
(* scoring.py: SYNONYMS and expand_skill_synonyms *)

SYNONYMS ==
    <<
      [ key |-> <<"r","e","s","t"," ","a","p","i">>,
        synonyms |-> <<
            <<"r","e","s","t","f","u","l"," ","a","p","i">>,
            <<"r","e","s","t","f","u","l"," ","a","p","i","s">>,
            <<"r","e","s","t"," ","a","p","i","s">>,
            <<"a","p","i"," ","d","e","v","e","l","o","p","m","e","n","t">>,
            <<"r","e","s","t"," ","s","e","r","v","i","c","e","s">> >> ],
      [ key |-> <<"n","o","s","q","l">>,
        synonyms |-> <<
            <<"n","o"," ","s","q","l">>,
            <<"m","o","n","g","o","d","b">>,
            <<"m","o","n","g","o">>,
            <<"n","o","n","-","r","e","l","a","t","i","o","n","a","l">>,
            <<"d","o","c","u","m","e","n","t"," ","d","a","t","a","b","a","s","e">> >> ],
      [ key |-> <<"l","l","m">>,
        synonyms |-> <<
            <<"l","a","r","g","e"," ","l","a","n","g","u","a","g","e"," ","m","o","d","e","l">>,
            <<"l","a","n","g","u","a","g","e"," ","m","o","d","e","l">>,
            <<"l","l","m","s">>,
            <<"t","r","a","n","s","f","o","r","m","e","r"," ","m","o","d","e","l">>,
            <<"g","e","n","e","r","a","t","i","v","e"," ","a","i">> >> ],
      [ key |-> <<"n","l","p">>,
        synonyms |-> <<
            <<"n","a","t","u","r","a","l"," ","l","a","n","g","u","a","g","e"," ","p","r","o","c","e","s","s","i","n","g">>,
            <<"t","e","x","t"," ","p","r","o","c","e","s","s","i","n","g">>,
            <<"l","a","n","g","u","a","g","e"," ","u","n","d","e","r","s","t","a","n","d","i","n","g">> >> ],
      [ key |-> <<"m","l">>,
        synonyms |-> <<
            <<"m","a","c","h","i","n","e"," ","l","e","a","r","n","i","n","g">>,
            <<"m","l"," ","a","l","g","o","r","i","t","h","m","s">>,
            <<"p","r","e","d","i","c","t","i","v","e"," ","m","o","d","e","l","i","n","g">> >> ],
      [ key |-> <<"d","e","e","p"," ","l","e","a","r","n","i","n","g">>,
        synonyms |-> <<
            <<"n","e","u","r","a","l"," ","n","e","t","w","o","r","k","s">>,
            <<"c","n","n">>,
            <<"r","n","n">>,
            <<"l","s","t","m">>,
            <<"n","e","u","r","a","l"," ","n","e","t">> >> ],
      [ key |-> <<"a","i">>,
        synonyms |-> <<
            <<"a","r","t","i","f","i","c","i","a","l"," ","i","n","t","e","l","l","i","g","e","n","c","e">>,
            <<"i","n","t","e","l","l","i","g","e","n","t"," ","s","y","s","t","e","m","s">> >> ],
      [ key |-> <<"a","w","s">>,
        synonyms |-> <<
            <<"a","m","a","z","o","n"," ","w","e","b"," ","s","e","r","v","i","c","e","s">>,
            <<"a","m","a","z","o","n"," ","a","w","s">>,
            <<"e","c","2">>,
            <<"s","3">>,
            <<"l","a","m","b","d","a">> >> ],
      [ key |-> <<"g","c","p">>,
        synonyms |-> <<
            <<"g","o","o","g","l","e"," ","c","l","o","u","d"," ","p","l","a","t","f","o","r","m">>,
            <<"g","o","o","g","l","e"," ","c","l","o","u","d">>,
            <<"g","c","p"," ","s","e","r","v","i","c","e","s">> >> ],
      [ key |-> <<"a","z","u","r","e">>,
        synonyms |-> <<
            <<"m","i","c","r","o","s","o","f","t"," ","a","z","u","r","e">>,
            <<"a","z","u","r","e"," ","c","l","o","u","d">> >> ],
      [ key |-> <<"c","i","/","c","d">>,
        synonyms |-> <<
            <<"c","o","n","t","i","n","u","o","u","s"," ","i","n","t","e","g","r","a","t","i","o","n">>,
            <<"c","o","n","t","i","n","u","o","u","s"," ","d","e","p","l","o","y","m","e","n","t">>,
            <<"c","i","c","d">>,
            <<"d","e","v","o","p","s">> >> ],
      [ key |-> <<"a","p","i">>,
        synonyms |-> <<
            <<"a","p","i","s">>,
            <<"a","p","p","l","i","c","a","t","i","o","n"," ","p","r","o","g","r","a","m","m","i","n","g"," ","i","n","t","e","r","f","a","c","e">>,
            <<"w","e","b"," ","a","p","i">>,
            <<"r","e","s","t"," ","a","p","i">> >> ],
      [ key |-> <<"d","o","c","k","e","r">>,
        synonyms |-> <<
            <<"c","o","n","t","a","i","n","e","r","i","z","a","t","i","o","n">>,
            <<"c","o","n","t","a","i","n","e","r","s">>,
            <<"d","o","c","k","e","r"," ","c","o","n","t","a","i","n","e","r","s">> >> ],
      [ key |-> <<"k","u","b","e","r","n","e","t","e","s">>,
        synonyms |-> <<
            <<"k","8","s">>,
            <<"c","o","n","t","a","i","n","e","r"," ","o","r","c","h","e","s","t","r","a","t","i","o","n">>,
            <<"k","u","b","e">> >> ],
      [ key |-> <<"p","y","t","h","o","n">>,
        synonyms |-> <<
            <<"p","y","t","h","o","n"," ","p","r","o","g","r","a","m","m","i","n","g">>,
            <<"p","y","t","h","o","n","3">>,
            <<"p","y","t","h","o","n"," ","d","e","v","e","l","o","p","m","e","n","t">> >> ],
      [ key |-> <<"j","a","v","a","s","c","r","i","p","t">>,
        synonyms |-> <<
            <<"j","s">>,
            <<"n","o","d","e",".","j","s">>,
            <<"n","o","d","e","j","s">>,
            <<"t","y","p","e","s","c","r","i","p","t">> >> ],
      [ key |-> <<"j","a","v","a">>,
        synonyms |-> <<
            <<"j","a","v","a"," ","p","r","o","g","r","a","m","m","i","n","g">>,
            <<"j","a","v","a"," ","d","e","v","e","l","o","p","m","e","n","t">>,
            <<"s","p","r","i","n","g"," ","b","o","o","t">> >> ],
      [ key |-> <<"s","q","l">>,
        synonyms |-> <<
            <<"d","a","t","a","b","a","s","e">>,
            <<"r","e","l","a","t","i","o","n","a","l"," ","d","a","t","a","b","a","s","e">>,
            <<"m","y","s","q","l">>,
            <<"p","o","s","t","g","r","e","s","q","l">> >> ],
      [ key |-> <<"g","i","t">>,
        synonyms |-> <<
            <<"v","e","r","s","i","o","n"," ","c","o","n","t","r","o","l">>,
            <<"g","i","t","h","u","b">>,
            <<"g","i","t","l","a","b">>,
            <<"s","o","u","r","c","e"," ","c","o","n","t","r","o","l">> >> ] >>

\* for one entry of the table: key_normalized and synonyms_normalized together
SynonymGroup(entry) ==
    Range(normalize_all(<<entry.key>> \o entry.synonyms))

SynonymGroups == { SynonymGroup(SYNONYMS[i]) : i \in 1..Len(SYNONYMS) }

\* lines 131-142: the normalized skill and every group it belongs to
variations(normalized) ==
    {normalized} \cup UNION { g \in SynonymGroups : normalized \in g }

expand_skill_synonyms(skill) == variations(normalize_skill(skill))

----------------------------------------------------------------------------
(* scoring.py: SECTION_PREFIXES and normalize_text *)

SECTION_PREFIXES ==
    << <<"a","i","/","m","l"," ","t","o","o","l","s",":">>,
       <<"f","r","a","m","e","w","o","r","k","s"," ","&"," ","t","o","o","l","s",":">>,
       <<"l","a","n","g","u","a","g","e","s",":">>,
       <<"t","e","c","h","n","o","l","o","g","i","e","s",":">>,
       <<"s","k","i","l","l","s",":">>,
       <<"t","e","c","h","n","i","c","a","l"," ","s","k","i","l","l","s",":">>,
       <<"p","r","o","g","r","a","m","m","i","n","g"," ","l","a","n","g","u","a","g","e","s",":">>,
       <<"t","o","o","l","s",":">>,
       <<"s","o","f","t","w","a","r","e",":">>,
       <<"p","l","a","t","f","o","r","m","s",":">> >>

\* a-z and 0-9
LowerAlnum ==
    { "a", "b", "c", "d", "e", "f", "g", "h", "i", "j", "k", "l", "m", "n", "o", "p", "q", "r", "s", "t", "u", "v", "w", "x", "y", "z", "0", "1", "2", "3", "4", "5", "6", "7", "8", "9" }

StartsWith(s, p) ==
    Len(s) >= Len(p) /\ SubSeq(s, 1, Len(p)) = p

\* lines 70-72: the loop over SECTION_PREFIXES, from the i-th prefix on
RECURSIVE strip_section_prefixes(_, _)
strip_section_prefixes(text, i) ==
    IF i > Len(SECTION_PREFIXES) THEN text
    ELSE IF StartsWith(text, SECTION_PREFIXES[i])
         THEN strip_section_prefixes(
                  strip(SubSeq(text, Len(SECTION_PREFIXES[i]) + 1, Len(text))), i + 1)
         ELSE strip_section_prefixes(text, i + 1)

\* re.sub(r'\s+', ' ', text): the first character of every run of whitespace
\* stays, as a space
collapse_whitespace(text) ==
    LET first == { i \in 1..Len(text) :
                     text[i] \notin Whitespace \/ i = 1 \/ text[i - 1] \notin Whitespace }
        RECURSIVE Build(_)
        Build(i) ==
            IF i > Len(text) THEN <<>>
            ELSE IF i \in first
                 THEN << IF text[i] \in Whitespace THEN " " ELSE text[i] >> \o Build(i + 1)
                 ELSE Build(i + 1)
    IN  Build(1)

normalize_text(text) ==
    IF text = <<>> THEN <<>>
    ELSE LET t1 == strip_section_prefixes(lower(text), 1)
             \* re.sub(r'[-/]', ' ', text)
             t2 == [ i \in 1..Len(t1) |-> IF t1[i] \in {"-", "/"} THEN " " ELSE t1[i] ]
             \* re.sub(r'[^a-z0-9\s]', '', text)
             Keep(c) == c \in LowerAlnum \/ c \in Whitespace
             t3 == SelectSeq(t2, Keep)
         IN  strip(collapse_whitespace(t3))

----------------------------------------------------------------------------
(* scoring.py: extract_skills_dynamic *)

\* re.split(r'[,\n;•|]', text)
RECURSIVE split(_, _)
split(s, seps) ==
    LET i == FirstIndex(s, seps, 1)
    IN  IF i = 0 THEN <<s>>
        ELSE <<SubSeq(s, 1, i - 1)>> \o split(SubSeq(s, i + 1, Len(s)), seps)

\* the alternatives of r'^(skills?|technologies?|tools?|languages?|frameworks?):\s*'
DynamicLabels ==
    { <<"s","k","i","l","l">>,
      <<"s","k","i","l","l","s">>,
      <<"t","e","c","h","n","o","l","o","g","i","e">>,
      <<"t","e","c","h","n","o","l","o","g","i","e","s">>,
      <<"t","o","o","l">>,
      <<"t","o","o","l","s">>,
      <<"l","a","n","g","u","a","g","e">>,
      <<"l","a","n","g","u","a","g","e","s">>,
      <<"f","r","a","m","e","w","o","r","k">>,
      <<"f","r","a","m","e","w","o","r","k","s">> }

StopWords ==
    { <<"a","n","d">>, <<"o","r">>, <<"t","h","e">>, <<"a">>, <<"a","n">>, <<"w","i","t","h">>, <<"u","s","i","n","g">> }

\* lines 176-177: the skill appended, if any
kept_skill(skill) ==
    IF skill # <<>> /\ skill \notin StopWords THEN <<skill>> ELSE <<>>

\* dynamic_skill without the upper limit of line 172
dynamic_skill_any_length(part) ==
    IF 2 < Len(part)
    THEN kept_skill(strip(cut_label(part, { l \in DynamicLabels : MatchesLabel(part, l) }, {})))
    ELSE <<>>

\* dynamic_skill with the limits of line 172 taken inclusively
dynamic_skill_inclusive(part) ==
    IF 2 <= Len(part) /\ Len(part) <= 50
    THEN kept_skill(strip(cut_label(part, { l \in DynamicLabels : MatchesLabel(part, l) }, {})))
    ELSE <<>>

\* lines 172-177 for one stripped part: the skills it contributes (none or one)
dynamic_skill(part) ==
    IF 2 < Len(part) /\ Len(part) < 50
    THEN kept_skill(strip(cut_label(part, { l \in DynamicLabels : MatchesLabel(part, l) }, {})))
    ELSE <<>>

RECURSIVE concat_skills(_)
concat_skills(parts) ==
    IF parts = <<>> THEN <<>>
    ELSE dynamic_skill(strip(Head(parts))) \o concat_skills(Tail(parts))

extract_skills_dynamic(text) ==
    IF text = <<>> THEN <<>>
    ELSE LET text_lower == lower(text)
             \* re.sub(r'[^a-z0-9\s,\.\-\&\+/]', ' ', text_lower)
             text_clean ==
                 [ i \in 1..Len(text_lower) |->
                     IF \/ text_lower[i] \in LowerAlnum
                        \/ text_lower[i] \in Whitespace
                        \/ text_lower[i] \in {",", ".", "-", "&", "+", "/"}
                     THEN text_lower[i] ELSE " " ]
         IN  concat_skills(split(text_clean, {",", "NL", ";", "BULLET", "|"}))

----------------------------------------------------------------------------
(* scoring.py: compute_skill_overlap_score, the keyword tier (lines 292-294  *)
(* and 308-347). An overlap is an exact fraction <<numerator, denominator>>. *)

NonEmpty(s) == s # <<>>

\* [normalize_skill(s) for s in skills if s and normalize_skill(s)]; an empty
\* s has an empty normalize_skill(s)
normalized_list(skills) ==
    SelectSeq(normalize_all(skills), NonEmpty)

\* lines 313-325: each normalized skill and its synonym variations
expanded_set(skills_normalized) ==
    UNION { {s} \cup expand_skill_synonyms(s) : s \in Range(skills_normalized) }

\* lines 328-335: <<len(intersection), len(job_skill_set)>>
ratio_of(resume_skill_set, job_skill_set) ==
    << Cardinality(resume_skill_set \cap job_skill_set), Cardinality(job_skill_set) >>

match_ratio(resume_skills, job_skills) ==
    ratio_of(expanded_set(normalized_list(resume_skills)),
             expanded_set(normalized_list(job_skills)))

\* lines 338-347: the boost for high ratios and the clamp to [0,1]
boosted(ratio) ==
    LET n == ratio[1]
        d == ratio[2]
        num == IF 10 * n >= 9 * d THEN 105 * n
               ELSE IF 10 * n >= 7 * d THEN 102 * n
               ELSE 100 * n
    IN  << Max(0, Min(100 * d, num)), 100 * d >>

\* lines 330-347
overlap_score(ratio) ==
    IF ratio[2] = 0 THEN <<0, 1>> ELSE boosted(ratio)

keyword_overlap(resume_skills, job_skills) ==
    IF normalized_list(job_skills) = <<>> THEN <<0, 1>>
    ELSE overlap_score(match_ratio(resume_skills, job_skills))

----------------------------------------------------------------------------
(* scoring.py: is_entry_level_role *)

entry_level_indicators ==
    { <<"i","n","t","e","r","n">>,
      <<"i","n","t","e","r","n","s","h","i","p">>,
      <<"f","r","e","s","h","e","r">>,
      <<"f","r","e","s","h">>,
      <<"t","r","a","i","n","e","e">>,
      <<"e","n","t","r","y"," ","l","e","v","e","l">>,
      <<"e","n","t","r","y","-","l","e","v","e","l">>,
      <<"j","u","n","i","o","r">>,
      <<"0","-","2">>,
      <<"0","ENDASH","2">>,
      <<"1","-","2">>,
      <<"1","ENDASH","2">>,
      <<"1","-","3">>,
      <<"1","ENDASH","3">>,
      <<"s","t","u","d","e","n","t">>,
      <<"g","r","a","d","u","a","t","e">>,
      <<"n","e","w"," ","g","r","a","d">>,
      <<"n","e","w"," ","g","r","a","d","u","a","t","e">> }

is_entry_level_role(text) ==
    IF text = <<>> THEN FALSE
    ELSE \E term \in entry_level_indicators : Contains(lower(text), term)

----------------------------------------------------------------------------
(* scoring.py: normalize_score_for_human_distribution                     *)
(* score in units of 1/2000, result in units of 1/60000.                  *)
(*   score_percent >= 30  <=> score >= 600;  <= 80 <=> score <= 1600      *)
(*   np.interp(p,[30,80],[40,95]) = 40 + (p-30)*55/50                     *)
(*   np.interp(p,[0,30],[0,40])   = p*40/30                               *)

\* normalize_score_for_human_distribution without the two min(95, .)
normalize_score_for_human_distribution_unclamped(score) ==
    LET normalized ==
            IF score >= 600
            THEN 24000 + 33 * (score - 600)
            ELSE IF score > 0
                 THEN 40 * score
                 ELSE 0
    IN  Max(0, normalized)

\* normalize_score_for_human_distribution with 0-30% scaled to 0-50%
normalize_score_for_human_distribution_steep(score) ==
    LET normalized ==
            IF score >= 600
            THEN IF score <= 1600
                 THEN 24000 + 33 * (score - 600)
                 ELSE Min(57000, 24000 + 33 * (score - 600))
            ELSE IF score > 0
                 THEN 50 * score
                 ELSE 0
    IN  Max(0, Min(57000, normalized))

normalize_score_for_human_distribution(score) ==
    LET normalized ==
            IF score >= 600
            THEN IF score <= 1600
                 THEN 24000 + 33 * (score - 600)
                 ELSE Min(57000, 24000 + 33 * (score - 600))
            ELSE IF score > 0
                 THEN 40 * score
                 ELSE 0
    IN  Max(0, Min(57000, normalized))

----------------------------------------------------------------------------
(* scoring.py: compute_suitability_score, stage by stage *)

\* 1.0 in the unit of the stages that follow the normalisation
One == 2000 * 30 * 50 * 100

\* max(0.0, min(1.0, x or 0.0))
clamp_input(x) ==
    IF x = None THEN 0 ELSE Max(0, Min(100, x))

\* sum(weights.values())
total_weight(weights) ==
    LET RECURSIVE Sum(_)
        Sum(keys) ==
            IF keys = {} THEN 0
            ELSE LET k == CHOOSE x \in keys : TRUE
                 IN  weights[k] + Sum(keys \ {k})
    IN  Sum(DOMAIN weights)

\* weights.get(key, default) after the weight selection of lines 553-576;
\* the result is the weight applied in the weighted sum, in twentieths.
\* The supplied mappings are drawn with normalised values that are whole
\* twentieths, so the division is exact.
applied_weight(weights, entry, key, default) ==
    IF weights = NoWeights
    THEN IF entry
         THEN (CASE key = "semantic" -> 13 [] key = "skills" -> 7 [] OTHER -> 0)
         ELSE (CASE key = "semantic" -> 11 [] key = "skills" -> 6 [] OTHER -> 3)
    ELSE IF key \in DOMAIN weights
         THEN IF total_weight(weights) > 0
              THEN (weights[key] * 20) \div total_weight(weights)
              ELSE weights[key]
         ELSE default

\* lines 579-583, in units of 1/2000
weighted_sum(sem, sk, ex, weights, jd_text) ==
    LET entry == IF jd_text # <<>> THEN is_entry_level_role(jd_text) ELSE FALSE
    IN    applied_weight(weights, entry, "semantic", 11) * sem
        + applied_weight(weights, entry, "skills", 6) * sk
        + applied_weight(weights, entry, "experience", 3) * ex

\* domain_penalty without the cap
domain_penalty_uncapped(score, sem) == score

\* lines 590-591, units of 1/2000
domain_penalty(score, sem) ==
    IF sem < 40 THEN Min(score, 800) ELSE score

\* lines 594-595, units 1/2000 -> 1/One
apply_normalize(score, normalize) ==
    IF normalize
    THEN normalize_score_for_human_distribution(score) * 5000
    ELSE score * (One \div 2000)

\* lines 598-599
domain_bonus(score, sem, sk) ==
    IF sem > 85 /\ sk > 70 THEN Min(One, score + One \div 20) ELSE score

\* perfect_match with min() written for max(): the score is capped, not floored
perfect_match_capped(score, sem, sk) ==
    IF sem > 90 /\ sk > 80
    THEN LET floored == Min(score, (One \div 100) * 95)
         IN  IF floored >= (One \div 100) * 95 /\ sem > 95
             THEN Min(One, floored + floored \div 50)
             ELSE floored
    ELSE score

\* lines 603-607; score * 1.02 = score + score/50
perfect_match(score, sem, sk) ==
    IF sem > 90 /\ sk > 80
    THEN LET floored == Max(score, (One \div 100) * 95)
         IN  IF floored >= (One \div 100) * 95 /\ sem > 95
             THEN Min(One, floored + floored \div 50)
             ELSE floored
    ELSE score

\* lines 610-611; score * 1.01 = score + score/100
micro_boost(score, sem) ==
    IF sem > 95 /\ score < One THEN Min(One, score + score \div 100) ELSE score

\* round(score * 100, 2), in hundredths of a percent; ties to even
round2(score) ==
    LET q == score \div 30000
        r == score % 30000
    IN  IF 2 * r > 30000 THEN q + 1
        ELSE IF 2 * r < 30000 THEN q
        ELSE IF q % 2 = 0 THEN q ELSE q + 1

\* final_clamp without the clamp of line 615
final_clamp_unclamped(score) ==
    round2(score)

\* lines 614-615
final_clamp(score) ==
    Max(0, Min(10000, round2(score)))

compute_suitability_score(semantic_similarity, skill_overlap, experience_relevance, weights, jd_text, normalize) ==
    LET sem == clamp_input(semantic_similarity)
        sk  == clamp_input(skill_overlap)
        ex  == clamp_input(experience_relevance)
        s0  == weighted_sum(sem, sk, ex, weights, jd_text)
        s1  == domain_penalty(s0, sem)
        s2  == apply_normalize(s1, normalize)
        s3  == domain_bonus(s2, sem, sk)
        s4  == perfect_match(s3, sem, sk)
        s5  == micro_boost(s4, sem)
    IN  final_clamp(s5)

----------------------------------------------------------------------------
(* scoring.py: compute_semantic_skill_overlap, compute_skill_overlap_fallback *)
(* and the whole of compute_skill_overlap_score.                            *)
(*                                                                          *)
(* The embedding model is a record: loaded (get_sentence_transformer_model  *)
(* returned it), encodes (model.encode returns rather than raises) and      *)
(* similar, the positions of the job tokens whose best cosine similarity    *)
(* to a resume token reaches the threshold.                                 *)

NoModel == [loaded |-> FALSE, encodes |-> FALSE, similar |-> {}]

\* a list element that is not a str (the integer 5): re.sub raises TypeError
NonString == <<"int 5">>

raises_TypeError(skills) ==
    \E i \in 1..Len(skills) : skills[i] = NonString

\* the elements of skills at the positions in keep, in order
RECURSIVE at_positions(_, _, _)
at_positions(skills, keep, i) ==
    IF i > Len(skills) THEN <<>>
    ELSE (IF i \in keep THEN <<skills[i]>> ELSE <<>>) \o at_positions(skills, keep, i + 1)

\* {n: s for n, s in zip(normalized, skills)}[key]: the last one wins
last_original(skills, normalized, key) ==
    skills[CHOOSE i \in 1..Len(skills) :
              /\ normalized[i] = key
              /\ \A j \in (i + 1)..Len(skills) : normalized[j] # key]

\* the positions where a normalized skill occurs first
first_positions(normalized) ==
    { i \in 1..Len(normalized) : \A j \in 1..(i - 1) : normalized[j] # normalized[i] }

\* lines 254-265, with jd_normalized and resume_normalized as lists. The lists
\* returned follow the iteration of a set of str, whose order Python leaves
\* open; here each normalized skill is taken where it first occurs.
fallback_lists(jd_skills, jd_normalized, resume_normalized, first) ==
    [ matched |->
          at_positions([ i \in 1..Len(jd_skills) |->
                           last_original(jd_skills, jd_normalized, jd_normalized[i]) ],
                       { i \in first : jd_normalized[i] \in Range(resume_normalized) }, 1),
      missing |->
          at_positions([ i \in 1..Len(jd_skills) |->
                           last_original(jd_skills, jd_normalized, jd_normalized[i]) ],
                       { i \in first : jd_normalized[i] \notin Range(resume_normalized) }, 1),
      overlap |->
          << Cardinality({ i \in first : jd_normalized[i] \in Range(resume_normalized) }),
             Len(jd_skills) >> ]

fallback_normalized(jd_skills, jd_normalized, resume_normalized) ==
    fallback_lists(jd_skills, jd_normalized, resume_normalized,
                   first_positions(jd_normalized))

compute_skill_overlap_fallback(jd_skills, resume_skills) ==
    fallback_normalized(jd_skills, normalize_all(jd_skills), normalize_all(resume_skills))

\* lines 204-236, for the skills extracted from the two texts
semantic_overlap_of(model, jd_skills, resume_skills) ==
    IF jd_skills = <<>>
    THEN [ matched |-> <<>>, missing |-> <<>>, overlap |-> <<0, 1>> ]
    ELSE IF resume_skills = <<>>
    THEN [ matched |-> <<>>, missing |-> jd_skills, overlap |-> <<0, 1>> ]
    ELSE IF model.encodes
    THEN [ matched |-> at_positions(jd_skills, (1..Len(jd_skills)) \cap model.similar, 1),
           missing |-> at_positions(jd_skills, (1..Len(jd_skills)) \ model.similar, 1),
           overlap |-> << Cardinality((1..Len(jd_skills)) \cap model.similar),
                          Len(jd_skills) >> ]
    ELSE compute_skill_overlap_fallback(jd_skills, resume_skills)

compute_semantic_skill_overlap(model, jd_text, resume_text) ==
    semantic_overlap_of(model, extract_skills_dynamic(jd_text),
                        extract_skills_dynamic(resume_text))

\* line 297: the semantic tier is tried
semantic_tier_tried(model, jd_text, resume_text) ==
    model.loaded /\ jd_text # <<>> /\ resume_text # <<>>

\* lines 297-301: the overlap the semantic tier found, <<0, 1>> when it is
\* not tried
semantic_tier_overlap(model, jd_text, resume_text) ==
    IF semantic_tier_tried(model, jd_text, resume_text)
    THEN compute_semantic_skill_overlap(model, jd_text, resume_text).overlap
    ELSE <<0, 1>>

\* lines 293-294: normalize_skill raises on an element that is not a str
compute_skill_overlap_score_raises(resume_skills, job_skills) ==
    raises_TypeError(resume_skills) \/ raises_TypeError(job_skills)

\* overlap_of_tiers with the overlap of the semantic tier returned as it is
overlap_of_tiers_final(resume_skills, job_skills, overlap) ==
    << Min(overlap[2], Max(0, overlap[1])), overlap[2] >>

\* lines 297-347: return the overlap of the semantic tier if it is positive,
\* the keyword-based score if not
overlap_of_tiers(resume_skills, job_skills, overlap) ==
    IF overlap[1] > 0
    THEN << Min(overlap[2], Max(0, overlap[1])), overlap[2] >>
    ELSE keyword_overlap(resume_skills, job_skills)

compute_skill_overlap_score(resume_skills, job_skills, model, jd_text, resume_text) ==
    overlap_of_tiers(resume_skills, job_skills,
                     semantic_tier_overlap(model, jd_text, resume_text))

----------------------------------------------------------------------------
(* scoring.py: compute_experience_relevance. Years are tenths of a year,    *)
(* the result hundredths; Pow07[r] is (r/100) ** 0.7 to the nearest         *)
(* hundredth and the ratio is taken to the hundredth below.                 *)

Pow07 ==
    << 4, 6, 9, 11, 12, 14, 16, 17, 19, 20, 21, 23, 24, 25, 27, 28, 29,
       30, 31, 32, 34, 35, 36, 37, 38, 39, 40, 41, 42, 43, 44, 45, 46,
       47, 48, 49, 50, 51, 52, 53, 54, 54, 55, 56, 57, 58, 59, 60, 61,
       62, 62, 63, 64, 65, 66, 67, 67, 68, 69, 70, 71, 72, 72, 73, 74,
       75, 76, 76, 77, 78, 79, 79, 80, 81, 82, 83, 83, 84, 85, 86, 86,
       87, 88, 89, 89, 90, 91, 91, 92, 93, 94, 94, 95, 96, 96, 97, 98,
       99, 99, 100 >>

\* an experience requirement that is not a number (the str '0-2 years')
NonNumeric == -8888

\* line 458: float >= str raises TypeError, unless line 447 or 451 returned
compute_experience_relevance_raises(resume_experience_years, job_required_experience, resume_text, jd_text) ==
    /\ job_required_experience = NonNumeric
    /\ ~ (/\ resume_text # <<>>
          /\ jd_text # <<>>
          /\ is_entry_level_role(resume_text)
          /\ is_entry_level_role(jd_text))

\* compute_experience_relevance without the max(0.3, relevance) of line 480
compute_experience_relevance_unfloored(resume_experience_years, job_required_experience, resume_text, jd_text) ==
    LET years == IF resume_experience_years = None THEN 0 ELSE resume_experience_years
        ratio == (100 * years) \div job_required_experience
        relevance == IF ratio = 0 THEN 0 ELSE Pow07[ratio]
    IN  IF /\ resume_text # <<>>
           /\ jd_text # <<>>
           /\ is_entry_level_role(resume_text)
           /\ is_entry_level_role(jd_text)
        THEN 100
        ELSE IF job_required_experience = 0 \/ job_required_experience = None THEN 100
        ELSE IF years >= job_required_experience THEN 100
        ELSE IF job_required_experience <= 20
        THEN (IF years > 0
              THEN Min(100, 70 + (30 * years) \div job_required_experience)
              ELSE 60)
        ELSE Max(0, Min(100, relevance))

\* compute_experience_relevance without the return of line 447
compute_experience_relevance_by_years(resume_experience_years, job_required_experience, resume_text, jd_text) ==
    LET years == IF resume_experience_years = None THEN 0 ELSE resume_experience_years
        ratio == (100 * years) \div job_required_experience
        relevance == IF ratio = 0 THEN 0 ELSE Pow07[ratio]
    IN  IF job_required_experience = 0 \/ job_required_experience = None THEN 100
        ELSE IF years >= job_required_experience THEN 100
        ELSE IF job_required_experience <= 20
        THEN (IF years > 0
              THEN Min(100, 70 + (30 * years) \div job_required_experience)
              ELSE 60)
        ELSE Max(0, Min(100, IF years > 0 THEN Max(30, relevance) ELSE relevance))

compute_experience_relevance(resume_experience_years, job_required_experience, resume_text, jd_text) ==
    LET years == IF resume_experience_years = None THEN 0 ELSE resume_experience_years
        ratio == (100 * years) \div job_required_experience
        relevance == IF ratio = 0 THEN 0 ELSE Pow07[ratio]
    IN  IF /\ resume_text # <<>>
           /\ jd_text # <<>>
           /\ is_entry_level_role(resume_text)
           /\ is_entry_level_role(jd_text)
        THEN 100
        ELSE IF job_required_experience = 0 \/ job_required_experience = None THEN 100
        ELSE IF years >= job_required_experience THEN 100
        ELSE IF job_required_experience <= 20
        THEN (IF years > 0
              THEN Min(100, 70 + (30 * years) \div job_required_experience)
              ELSE 60)
        ELSE Max(0, Min(100, IF years > 0 THEN Max(30, relevance) ELSE relevance))

----------------------------------------------------------------------------
(* scoring.py: extract_matching_skills and extract_missing_skills *)

\* the characters in code point order, for sorted()
CodePoints ==
    << "TAB", "NL", " ", "!", "DQUOTE", "#", "$", "%", "&", "'", "(",
       ")", "*", "+", ",", "-", ".", "/", "0", "1", "2", "3", "4", "5",
       "6", "7", "8", "9", ":", ";", "<", "=", ">", "?", "@", "A", "B",
       "C", "D", "E", "F", "G", "H", "I", "J", "K", "L", "M", "N", "O",
       "P", "Q", "R", "S", "T", "U", "V", "W", "X", "Y", "Z", "[",
       "BSLASH", "]", "^", "_", "BTICK", "a", "b", "c", "d", "e", "f", "g",
       "h", "i", "j", "k", "l", "m", "n", "o", "p", "q", "r", "s", "t",
       "u", "v", "w", "x", "y", "z", "{", "|", "}", "~", "ENDASH",
       "BULLET" >>

ord ==
    [ c \in Range(CodePoints) |-> CHOOSE i \in 1..Len(CodePoints) : CodePoints[i] = c ]

\* a < b for two str
RECURSIVE str_less(_, _)
str_less(a, b) ==
    IF b = <<>> THEN FALSE
    ELSE IF a = <<>> THEN TRUE
    ELSE IF Head(a) = Head(b) THEN str_less(Tail(a), Tail(b))
    ELSE ord[Head(a)] < ord[Head(b)]

\* sorted(list) of a list without duplicates
RECURSIVE sorted(_)
sorted(strs) ==
    IF strs = {} THEN <<>>
    ELSE LET least == CHOOSE s \in strs : \A u \in strs : u = s \/ str_less(s, u)
         IN  <<least>> \o sorted(strs \ {least})

\* the normalized form of every skill and its synonym variations
skill_set(skills) ==
    UNION { variations(n) : n \in Range(normalize_all(skills)) }

\* the originals the dict holds for the normalized skills in keys
originals(skills, normalized, keys) ==
    { last_original(skills, normalized, k) : k \in keys \cap Range(normalized) }

extract_matching_skills(resume_skills, job_skills) ==
    sorted(originals(resume_skills, normalize_all(resume_skills),
                     skill_set(resume_skills) \cap skill_set(job_skills)))

\* extract_missing_skills without the difference of line 695: every job
\* skill is listed
extract_missing_skills_all(resume_skills, job_skills) ==
    sorted(originals(job_skills, normalize_all(job_skills), skill_set(job_skills)))

extract_missing_skills(resume_skills, job_skills) ==
    sorted(originals(job_skills, normalize_all(job_skills),
                     skill_set(job_skills) \ skill_set(resume_skills)))

\* normalize_skill raises on an element that is not a str
extract_skills_raises(resume_skills, job_skills) ==
    raises_TypeError(resume_skills) \/ raises_TypeError(job_skills)

----------------------------------------------------------------------------
(* matching_agent.py: MatchingAgent.match                                   *)
(*                                                                          *)
(* A resume is a record name, education, skills, experience_years,          *)
(* certifications, raw_text; a job description a record title,              *)
(* skills_required, skills_preferred, responsibilities, requirements,       *)
(* all_skills, experience_required, raw_text. env is what the embedding     *)
(* provider does during the call: load (get_sentence_transformer_model      *)
(* returns), embed (generate_embeddings returns), cosine (the similarity of *)
(* the two document embeddings, in hundredths), encodes and similar (the    *)
(* model record above). The aggregator takes its sub-scores in hundredths:  *)
(* the documents drawn below give skill overlaps and experience relevances  *)
(* that are whole hundredths (SubScoresExact), so to_hundredths loses       *)
(* nothing on them.                                                         *)

\* lines 31-36: 0.6, 0.3, 0.1
default_weights == [semantic |-> 12, skills |-> 6, experience |-> 2]

\* a weights mapping with a value that is not a number: sum() raises TypeError
BadWeights == [bad |-> 0]

\* round(num / den, 0) with ties to even, den > 0 and num >= 0
round_half_even(num, den) ==
    IF 2 * (num % den) > den \/ (2 * (num % den) = den /\ (num \div den) % 2 = 1)
    THEN (num \div den) + 1
    ELSE num \div den

to_hundredths(overlap) == round_half_even(100 * overlap[1], overlap[2])

Digits == <<"0", "1", "2", "3", "4", "5", "6", "7", "8", "9">>

RECURSIVE int_str(_)
int_str(n) ==
    (IF n >= 10 THEN int_str(n \div 10) ELSE <<>>) \o <<Digits[(n % 10) + 1]>>

\* str(c) of a blob component: a str, a float of years or the integer 5
float_str(years) == int_str(years \div 10) \o <<".">> \o int_str(years % 10)

str(c) == IF c = NonString THEN <<"5">> ELSE c

\* " ".join(parts)
RECURSIVE join(_)
join(parts) ==
    IF parts = <<>> THEN <<>>
    ELSE IF Len(parts) = 1 THEN Head(parts)
    ELSE Head(parts) \o <<" ">> \o join(Tail(parts))

str_all(components) == [ i \in 1..Len(components) |-> str(components[i]) ]

\* [str(c) for c in components if c]
truthy(components) == str_all(SelectSeq(components, NonEmpty))

\* lines 74-81
resume_blob(resume_data) ==
    IF Len(strip(resume_data.raw_text)) < 50
    THEN join(truthy(<<resume_data.name, resume_data.education>>
                     \o resume_data.skills
                     \o <<float_str(resume_data.experience_years)>>
                     \o resume_data.certifications))
    ELSE resume_data.raw_text

\* lines 84-91
jd_blob(jd_data) ==
    IF Len(strip(jd_data.raw_text)) < 50
    THEN join(truthy(<<jd_data.title,
                       join(jd_data.skills_required),
                       join(jd_data.skills_preferred),
                       join(jd_data.responsibilities),
                       join(jd_data.requirements)>>))
    ELSE jd_data.raw_text

\* lines 87-88: str.join raises TypeError on an element that is not a str
jd_blob_raises(jd_data) ==
    /\ Len(strip(jd_data.raw_text)) < 50
    /\ raises_TypeError(jd_data.skills_required \o jd_data.skills_preferred)

\* The local variables of match, one record that each step extends.
\* lines 55-91
prepare_texts(resume_data, jd_data, weights) ==
    [ weights |-> IF weights = NoWeights THEN default_weights ELSE weights,
      resume_skills |-> resume_data.skills,
      resume_experience |-> resume_data.experience_years,
      jd_skills |-> jd_data.all_skills,
      jd_required_skills |-> jd_data.skills_required,
      jd_experience_required |-> jd_data.experience_required,
      resume_text |-> resume_blob(resume_data),
      jd_text |-> jd_blob(jd_data) ]

\* lines 94-95
normalize_texts(locals) ==
    locals @@ [ resume_text_normalized |-> normalize_text(locals.resume_text),
                jd_text_normalized |-> normalize_text(locals.jd_text) ]

\* load_and_embed with the similarity computed although the embeddings failed
load_and_embed_stale(locals, env) ==
    locals @@ [ model |-> IF env.load
                          THEN [loaded |-> TRUE, encodes |-> env.encodes,
                                similar |-> env.similar]
                          ELSE NoModel,
                embedded |-> env.embed,
                semantic_similarity |-> Max(0, Min(100, env.cosine)) ]

\* lines 98-121: the model or None, the embeddings or None, the similarity
load_and_embed(locals, env) ==
    locals @@ [ model |-> IF env.load
                          THEN [loaded |-> TRUE, encodes |-> env.encodes,
                                similar |-> env.similar]
                          ELSE NoModel,
                embedded |-> env.embed,
                semantic_similarity |->
                    IF env.embed THEN Max(0, Min(100, env.cosine)) ELSE 0 ]

\* lines 125-136; semantic_tier tells that the score is the semantic tier's
score_skills(locals) ==
    locals @@
    [ overlap_raised |->
          compute_skill_overlap_score_raises(locals.resume_skills, locals.jd_skills),
      skill_overlap |->
          IF compute_skill_overlap_score_raises(locals.resume_skills, locals.jd_skills)
          THEN <<0, 1>>
          ELSE compute_skill_overlap_score(locals.resume_skills, locals.jd_skills,
                   locals.model, locals.jd_text_normalized, locals.resume_text_normalized),
      semantic_tier |->
          /\ ~ compute_skill_overlap_score_raises(locals.resume_skills, locals.jd_skills)
          /\ semantic_tier_overlap(locals.model, locals.jd_text_normalized,
                                   locals.resume_text_normalized)[1] > 0 ]

\* lines 139-149
score_experience(locals) ==
    locals @@
    [ experience_raised |->
          compute_experience_relevance_raises(locals.resume_experience,
              locals.jd_experience_required, locals.resume_text, locals.jd_text),
      experience_relevance |->
          IF compute_experience_relevance_raises(locals.resume_experience,
                 locals.jd_experience_required, locals.resume_text, locals.jd_text)
          THEN 50
          ELSE compute_experience_relevance(locals.resume_experience,
                   locals.jd_experience_required, locals.resume_text, locals.jd_text) ]

\* lines 152-171
score_suitability(locals) ==
    locals @@
    [ suitability_raised |-> (locals.weights = BadWeights),
      suitability_score |->
          IF locals.weights = BadWeights
          THEN Max(0, Min(10000,
                   round_half_even(
                       (50 * locals.semantic_similarity + 20 * locals.experience_relevance)
                           * locals.skill_overlap[2] + 3000 * locals.skill_overlap[1],
                       locals.skill_overlap[2])))
          ELSE compute_suitability_score(locals.semantic_similarity,
                   to_hundredths(locals.skill_overlap), locals.experience_relevance,
                   locals.weights, locals.jd_text, TRUE) ]

\* lines 55-171: the values match holds when it reaches the skill lists
match_scores(resume_data, jd_data, weights, env) ==
    score_suitability(score_experience(score_skills(
        load_and_embed(normalize_texts(prepare_texts(resume_data, jd_data, weights)), env))))

\* first_ten without the limit
first_ten_unlimited(skills) == skills

\* skills[:10]
first_ten(skills) == SubSeq(skills, 1, Min(10, Len(skills)))

\* lines 189-190 and 193-194: the keyword-based lists
keyword_lists(locals) ==
    [ raised |-> FALSE,
      matching_skills |-> extract_matching_skills(locals.resume_skills, locals.jd_skills),
      missing_skills |->
          first_ten(extract_missing_skills(locals.resume_skills, locals.jd_required_skills)) ]

keyword_lists_raise(locals) ==
    \/ extract_skills_raises(locals.resume_skills, locals.jd_skills)
    \/ extract_skills_raises(locals.resume_skills, locals.jd_required_skills)

\* lines 175-194, semantic being what compute_semantic_skill_overlap returned.
\* The semantic tier does not raise; when the keyword-based extraction raises
\* in the try block the handler calls it again with the same arguments,
\* outside any try.
lists_of_tiers(locals, semantic) ==
    IF locals.model.loaded /\ semantic.matched # <<>>
    THEN [ raised |-> FALSE,
           matching_skills |-> semantic.matched,
           missing_skills |-> first_ten(semantic.missing) ]
    ELSE IF keyword_lists_raise(locals)
    THEN [ raised |-> TRUE, matching_skills |-> <<>>, missing_skills |-> <<>> ]
    ELSE keyword_lists(locals)

skill_lists(locals) ==
    lists_of_tiers(locals,
        compute_semantic_skill_overlap(locals.model, locals.jd_text_normalized,
                                       locals.resume_text_normalized))

\* str.rstrip('.,;:!?')
RECURSIVE rstrip_punctuation(_)
rstrip_punctuation(s) ==
    IF s # <<>> /\ s[Len(s)] \in {".", ",", ";", ":", "!", "?"}
    THEN rstrip_punctuation(SubSeq(s, 1, Len(s) - 1))
    ELSE s

\* lines 214-216: the cleaned skill appended, if any
kept_clean(skill_clean) ==
    IF skill_clean # <<>> THEN <<skill_clean>> ELSE <<>>

\* lines 207-216 and 219-227: the loop from skills[i] on, seen_normalized = seen
RECURSIVE clean_skills(_, _, _, _)
clean_skills(skills, normalized, i, seen) ==
    IF i > Len(skills) THEN <<>>
    ELSE IF normalized[i] # <<>> /\ normalized[i] \notin seen
    THEN kept_clean(rstrip_punctuation(strip(skills[i])))
             \o clean_skills(skills, normalized, i + 1, seen \cup {normalized[i]})
    ELSE clean_skills(skills, normalized, i + 1, seen)

\* what is left of a call that an exception ended: the step that raised
raised_at(step) == [raised |-> TRUE, at |-> step]

\* lines 198-201 and 241-251: the dictionary returned, percentages in
\* hundredths of a percent
match_result(resume_data, jd_data, locals, lists) ==
    [ candidate_name |-> resume_data.name,
      suitability_score |-> Max(0, Min(10000, locals.suitability_score)),
      semantic_similarity |-> 100 * locals.semantic_similarity,
      skill_overlap |-> Max(0, Min(10000,
          round_half_even(10000 * locals.skill_overlap[1], locals.skill_overlap[2]))),
      experience_relevance |-> 100 * locals.experience_relevance,
      matching_skills |->
          clean_skills(lists.matching_skills, normalize_all(lists.matching_skills), 1, {}),
      missing_skills |->
          clean_skills(first_ten(lists.missing_skills),
                       normalize_all(first_ten(lists.missing_skills)), 1, {}),
      resume_data |-> resume_data,
      jd_data |-> jd_data ]

\* lines 196-251, or the exception of lines 193-194
conclude(resume_data, jd_data, locals, lists) ==
    IF lists.raised THEN raised_at("skill_lists")
    ELSE [ raised |-> FALSE,
           locals |-> locals,
           result |-> match_result(resume_data, jd_data, locals, lists) ]

\* lines 173-251
finish(resume_data, jd_data, locals) ==
    conclude(resume_data, jd_data, locals, skill_lists(locals))

\* the call as a whole: the dictionary returned, with the local variables it
\* was made from, or the step where an exception left match
match(resume_data, jd_data, weights, env) ==
    IF jd_blob_raises(jd_data) THEN raised_at("texts")
    ELSE finish(resume_data, jd_data, match_scores(resume_data, jd_data, weights, env))

----------------------------------------------------------------------------
(* Inputs of the aggregator *)

\* how far around each threshold the sub-scores are sampled
Dither == 1

Near(marks) ==
    { v \in 0..100 : \E m \in marks : v - m <= Dither /\ m - v <= Dither }

SemanticValues == Near({0, 40, 60, 85, 90, 95, 100}) \cup {None, -10, 120}

SkillValues == Near({0, 70, 80, 100}) \cup {None, 120}

ExperienceValues == {0, 50, 100, None}

WeightMappings ==
    { NoWeights,
      [semantic |-> 12, skills |-> 6, experience |-> 2],
      [semantic |-> 20, skills |-> 20],
      [experience |-> 20],
      [semantic |-> 40, skills |-> -20],
      [semantic |-> -20, skills |-> 10, experience |-> 10] }

JdTexts ==
    { <<>>,
      <<"J","u","n","i","o","r"," ","D","e","v","e","l","o","p","e","r">>,
      <<"S","e","n","i","o","r"," ","E","n","g","i","n","e","e","r">> }

SuitabilityInputs ==
    [ semantic : SemanticValues, skills : SkillValues, experience : ExperienceValues,
      weights : WeightMappings, jd_text : JdTexts, normalize : BOOLEAN ]

----------------------------------------------------------------------------
(* Specification of one call of compute_suitability_score *)

SuitIdle ==
    /\ sIn = [ semantic |-> 0, skills |-> 0, experience |-> 0,
               weights |-> NoWeights, jd_text |-> <<>>, normalize |-> TRUE ]
    /\ sApplied = <<>>
    /\ sOut = None
    /\ sPc = "idle"

SkillIdle ==
    /\ kIn = [ resume_skills |-> <<>>, job_skills |-> <<>> ]
    /\ kRatio = <<>>
    /\ kOut = <<>>
    /\ kPc = "idle"

MatchIdle ==
    /\ mIn = <<>>
    /\ mLocals = <<>>
    /\ mOut = <<>>
    /\ mPc = "idle"

BatchIdle ==
    /\ bIn = <<>>
    /\ bI = 0
    /\ bResults = <<>>
    /\ bRaised = {}
    /\ bOut = <<>>
    /\ bPc = "idle"

FnIdle ==
    /\ fIn = <<>>
    /\ fOut = <<>>
    /\ fPc = "idle"

SessIdle ==
    /\ hHeap = <<>>
    /\ hInit = <<>>
    /\ hLast = <<>>
    /\ hCalls = 0

EmbedIdle ==
    /\ eCache = <<>>
    /\ eBuilt = 0
    /\ eHeld = {}
    /\ eCalls = 0
    /\ ePc = "idle"

InitSuitability ==
    /\ sIn \in SuitabilityInputs
    /\ sApplied = <<>>
    /\ sOut = None
    /\ sPc = "call"
    /\ SkillIdle
    /\ MatchIdle
    /\ BatchIdle
    /\ FnIdle
    /\ SessIdle
    /\ EmbedIdle

\* the weights applied in the weighted sum of lines 579-583
applied_weights(weights, jd_text) ==
    LET entry == IF jd_text # <<>> THEN is_entry_level_role(jd_text) ELSE FALSE
    IN  [ semantic   |-> applied_weight(weights, entry, "semantic", 11),
          skills     |-> applied_weight(weights, entry, "skills", 6),
          experience |-> applied_weight(weights, entry, "experience", 3) ]

CallSuitability ==
    /\ sPc = "call"
    /\ sApplied' = applied_weights(sIn.weights, sIn.jd_text)
    /\ sOut' = compute_suitability_score(sIn.semantic, sIn.skills, sIn.experience,
                                         sIn.weights, sIn.jd_text, sIn.normalize)
    /\ sPc' = "done"
    /\ UNCHANGED <<sIn, skillVars, matchVars, batchVars, fnVars, sessVars, embedVars>>

NextSuitability == CallSuitability

SpecSuitability == InitSuitability /\ [][NextSuitability]_vars

----------------------------------------------------------------------------
(* Specification of one call of compute_skill_overlap_score(resume_skills,  *)
(* job_skills) with model=None                                              *)

\* longest skill list drawn
MaxSkills == 2

SkillPool ==
    { <<"a","w","s">>,
      <<"A","m","a","z","o","n"," ","W","e","b"," ","S","e","r","v","i","c","e","s">>,
      <<"r","u","s","t">>,
      <<"P","y","t","h","o","n">>,
      <<"D","a","t","a","b","a","s","e","s",":"," ","M","y","S","Q","L">>,
      <<"s","q","l">>,
      <<>> }

SkillLists == UNION { [1..n -> SkillPool] : n \in 0..MaxSkills }

InitSkills ==
    /\ kIn \in [ resume_skills : SkillLists, job_skills : SkillLists ]
    /\ kRatio = <<>>
    /\ kOut = <<>>
    /\ kPc = "call"
    /\ SuitIdle
    /\ MatchIdle
    /\ BatchIdle
    /\ FnIdle
    /\ SessIdle
    /\ EmbedIdle

CallSkillOverlap ==
    /\ kPc = "call"
    /\ kRatio' = IF normalized_list(kIn.job_skills) = <<>> THEN <<>>
                 ELSE match_ratio(kIn.resume_skills, kIn.job_skills)
    /\ kOut' = keyword_overlap(kIn.resume_skills, kIn.job_skills)
    /\ kPc' = "done"
    /\ UNCHANGED <<kIn, suitVars, matchVars, batchVars, fnVars, sessVars, embedVars>>

NextSkills == CallSkillOverlap

SpecSkills == InitSkills /\ [][NextSkills]_vars

----------------------------------------------------------------------------
(* Specification of one call of MatchingAgent.match *)

ResumeAnn ==
    [ name |-> <<"A","n","n">>,
      education |-> <<>>,
      skills |-> <<<<"a","w","s">>>>,
      experience_years |-> 10,
      certifications |-> <<>>,
      raw_text |-> <<>> ]

ResumeBob ==
    [ name |-> <<"B","o","b">>,
      education |-> <<"B","S","c">>,
      skills |-> <<<<"P","y","t","h","o","n">>, <<"D","a","t","a","b","a","s","e","s",":"," ","M","y","S","Q","L">>>>,
      experience_years |-> 20,
      certifications |-> <<>>,
      raw_text |-> <<"B","o","b",","," ","j","u","n","i","o","r"," ","P","y","t","h","o","n"," ","d","e","v","e","l","o","p","e","r",":"," ","2"," ","y","e","a","r","s"," ","w","i","t","h"," ","M","y","S","Q","L"," ","a","n","d"," ","A","W","S",".">> ]

ResumeCy ==
    [ name |-> <<"C","y">>,
      education |-> <<>>,
      skills |-> <<<<"a","w","s">>, NonString>>,
      experience_years |-> 0,
      certifications |-> <<>>,
      raw_text |-> <<>> ]

ResumeDee ==
    [ name |-> <<"D","e","e">>,
      education |-> <<>>,
      skills |-> <<<<"A","m","a","z","o","n"," ","W","e","b"," ","S","e","r","v","i","c","e","s">>>>,
      experience_years |-> 10,
      certifications |-> <<>>,
      raw_text |-> <<>> ]

JdDev ==
    [ title |-> <<"D","e","v">>,
      skills_required |-> <<<<"a","w","s">>, <<"d","o","c","k","e","r">>>>,
      skills_preferred |-> <<>>,
      responsibilities |-> <<>>,
      requirements |-> <<>>,
      all_skills |-> <<<<"a","w","s">>, <<"d","o","c","k","e","r">>>>,
      experience_required |-> 20,
      raw_text |-> <<>> ]

JdJunior ==
    [ title |-> <<"J","u","n","i","o","r"," ","D","e","v","e","l","o","p","e","r">>,
      skills_required |-> <<<<"p","y","t","h","o","n">>>>,
      skills_preferred |-> <<<<"M","y","S","Q","L",".">>>>,
      responsibilities |-> <<>>,
      requirements |-> <<>>,
      all_skills |-> <<<<"p","y","t","h","o","n">>, <<"M","y","S","Q","L",".">>>>,
      experience_required |-> NonNumeric,
      raw_text |-> <<"J","u","n","i","o","r"," ","d","e","v","e","l","o","p","e","r"," ","w","a","n","t","e","d",":"," ","P","y","t","h","o","n",","," ","S","Q","L",","," ","c","l","o","u","d",";"," ","0","-","2"," ","y","e","a","r","s"," ","e","x","p","e","r","i","e","n","c","e",".">> ]

JdSenior ==
    [ title |-> <<"S","e","n","i","o","r"," ","E","n","g","i","n","e","e","r">>,
      skills_required |-> <<<<"P","y","t","h","o","n">>, <<"K","u","b","e","r","n","e","t","e","s">>>>,
      skills_preferred |-> <<>>,
      responsibilities |-> <<>>,
      requirements |-> <<>>,
      all_skills |-> <<<<"P","y","t","h","o","n">>, <<"K","u","b","e","r","n","e","t","e","s">>>>,
      experience_required |-> 120,
      raw_text |-> <<"S","e","n","i","o","r"," ","e","n","g","i","n","e","e","r",","," ","1","2","+"," ","y","e","a","r","s",","," ","f","o","r"," ","o","u","r"," ","p","l","a","t","f","o","r","m"," ","t","e","a","m",":"," ","P","y","t","h","o","n"," ","a","n","d"," ","K","u","b","e","r","n","e","t","e","s",".">> ]

JdOps ==
    [ title |-> <<"O","p","s">>,
      skills_required |-> <<<<"a","w","s">>, NonString>>,
      skills_preferred |-> <<>>,
      responsibilities |-> <<>>,
      requirements |-> <<>>,
      all_skills |-> <<<<"a","w","s">>>>,
      experience_required |-> 0,
      raw_text |-> <<>> ]

JdLead ==
    [ title |-> <<"L","e","a","d">>,
      skills_required |-> <<<<"a","w","s">>, NonString>>,
      skills_preferred |-> <<>>,
      responsibilities |-> <<>>,
      requirements |-> <<>>,
      all_skills |-> <<<<"a","w","s">>>>,
      experience_required |-> 0,
      raw_text |-> <<"L","e","a","d"," ","w","a","n","t","e","d"," ","f","o","r"," ","t","h","e"," ","o","p","e","r","a","t","i","o","n","s"," ","g","r","o","u","p",":"," ","a","w","s",","," ","f","i","v","e"," ","y","e","a","r","s",".">> ]

ResumeEve ==
    [ name |-> <<"E","v","e">>,
      education |-> <<>>,
      skills |-> <<>>,
      experience_years |-> 0,
      certifications |-> <<>>,
      raw_text |-> <<>> ]

JdStack ==
    [ title |-> <<"S","t","a","c","k">>,
      skills_required |-> <<<<"a","d","a">>, <<"a","p","l">>, <<"a","w","k">>, <<"c","o","b","o","l">>, <<"d","a","r","t">>, <<"p","e","r","l">>, <<"p","h","p">>, <<"l","i","s","p">>, <<"r","u","b","y">>, <<"l","u","a">>, <<"L","u","a">>, <<"z","i","g">>>>,
      skills_preferred |-> <<<<"t","c","l">>>>,
      responsibilities |-> <<>>,
      requirements |-> <<>>,
      all_skills |-> <<<<"a","d","a">>, <<"a","p","l">>, <<"a","w","k">>, <<"c","o","b","o","l">>, <<"d","a","r","t">>, <<"p","e","r","l">>, <<"p","h","p">>, <<"l","i","s","p">>, <<"r","u","b","y">>, <<"l","u","a">>, <<"L","u","a">>, <<"z","i","g">>, <<"t","c","l">>>>,
      experience_required |-> 0,
      raw_text |-> <<>> ]

ResumeDocs == {ResumeAnn, ResumeBob, ResumeCy, ResumeDee, ResumeEve}

JdDocs == {JdDev, JdJunior, JdSenior, JdOps, JdLead, JdStack}

WeightArgs == {NoWeights, [semantic |-> 10, skills |-> 6, experience |-> 4], BadWeights}

\* most tokens the provider is asked to compare
MaxTokens == 1

CosineValues == {-5, 39, 60, 95}

Envs ==
    [ load : BOOLEAN, embed : BOOLEAN, cosine : CosineValues,
      encodes : BOOLEAN, similar : SUBSET (1..MaxTokens) ]

InitMatch ==
    /\ mIn \in [ resume_data : ResumeDocs, jd_data : JdDocs, weights : WeightArgs, env : Envs ]
    /\ mLocals = <<>>
    /\ mOut = <<>>
    /\ mPc = "call"
    /\ SuitIdle
    /\ SkillIdle
    /\ BatchIdle
    /\ FnIdle
    /\ SessIdle
    /\ EmbedIdle

CallMatch ==
    /\ mPc = "call"
    /\ mOut' = match(mIn.resume_data, mIn.jd_data, mIn.weights, mIn.env)
    /\ mLocals' = IF mOut'.raised THEN <<>> ELSE mOut'.locals
    /\ mPc' = IF mOut'.raised THEN "raised" ELSE "done"
    /\ UNCHANGED <<mIn, suitVars, skillVars, batchVars, fnVars, sessVars, embedVars>>

NextMatch == CallMatch

SpecMatch == InitMatch /\ [][NextMatch]_vars

----------------------------------------------------------------------------
(* Specification of one call of MatchingAgent.batch_match. bResults and     *)
(* bOut hold each result with the position its resume had in the input,     *)
(* which the code does not store; bRaised is the positions whose match      *)
(* raised.                                                                  *)

\* longest batch drawn
MaxResumes == 3

\* the resumes a batch is drawn from
BatchResumes == {ResumeAnn, ResumeBob, ResumeCy, ResumeDee}

ResumeLists == UNION { [1..n -> BatchResumes] : n \in 0..MaxResumes }

BatchJds == {JdDev, JdJunior}

\* the provider during a batch: no model for the skills, embeddings returned
BatchEnvs ==
    { env \in Envs : /\ ~ env.load
                     /\ env.embed
                     /\ env.encodes
                     /\ env.similar = {}
                     /\ env.cosine \in {39, 95} }

\* match on the arguments a batch draws, computed once (@@ makes the
\* function a table)
match_memo ==
    [ a \in [ resume_data : BatchResumes, jd_data : BatchJds, env : BatchEnvs ] |->
        match(a.resume_data, a.jd_data, NoWeights, a.env) ] @@ <<>>

\* collect with a partial record kept for a resume whose match raised
collect_partial(results, position, outcome) ==
    Append(results, [position |-> position,
                     result |-> IF outcome.raised
                                THEN [suitability_score |-> 0]
                                ELSE outcome.result])

\* lines 273-278: append the result, or continue when match raised
collect(results, position, outcome) ==
    IF outcome.raised THEN results
    ELSE Append(results, [position |-> position, result |-> outcome.result])

\* insert with the next element put before the elements of equal key
insert_unstable(sorted_results, x) ==
    LET before == { i \in 1..Len(sorted_results) :
                      sorted_results[i].result.suitability_score
                          > x.result.suitability_score }
    IN  SubSeq(sorted_results, 1, Cardinality(before)) \o <<x>>
            \o SubSeq(sorted_results, Cardinality(before) + 1, Len(sorted_results))

\* where list.sort puts the next element among those sorted before it:
\* after every element whose key is not smaller
insert(sorted_results, x) ==
    LET before == { i \in 1..Len(sorted_results) :
                      sorted_results[i].result.suitability_score
                          >= x.result.suitability_score }
    IN  SubSeq(sorted_results, 1, Cardinality(before)) \o <<x>>
            \o SubSeq(sorted_results, Cardinality(before) + 1, Len(sorted_results))

\* line 281: results.sort(key=suitability_score, reverse=True), the results
\* up to the n-th
RECURSIVE sort_by_score(_, _)
sort_by_score(results, n) ==
    IF n = 0 THEN <<>>
    ELSE insert(sort_by_score(results, n - 1), results[n])

InitBatch ==
    /\ bIn \in [ resumes_data : ResumeLists, jd_data : BatchJds, weights : {NoWeights} ]
    /\ bI = 1
    /\ bResults = <<>>
    /\ bRaised = {}
    /\ bOut = <<>>
    /\ bPc = "loop"
    /\ SuitIdle
    /\ SkillIdle
    /\ MatchIdle
    /\ FnIdle
    /\ SessIdle
    /\ EmbedIdle

\* lines 272-278: one turn of the loop
BatchIterate ==
    /\ bPc = "loop"
    /\ bI <= Len(bIn.resumes_data)
    /\ \E env \in BatchEnvs :
          LET outcome == match_memo[[resume_data |-> bIn.resumes_data[bI],
                                     jd_data |-> bIn.jd_data, env |-> env]]
          IN  /\ bResults' = collect(bResults, bI, outcome)
              /\ bRaised' = IF outcome.raised THEN bRaised \cup {bI} ELSE bRaised
    /\ bI' = bI + 1
    /\ UNCHANGED <<bIn, bOut, bPc, suitVars, skillVars, matchVars, fnVars, sessVars, embedVars>>

\* lines 280-283: the sort and the return
BatchReturn ==
    /\ bPc = "loop"
    /\ bI > Len(bIn.resumes_data)
    /\ bOut' = sort_by_score(bResults, Len(bResults))
    /\ bPc' = "done"
    /\ UNCHANGED <<bIn, bI, bResults, bRaised, suitVars, skillVars, matchVars, fnVars, sessVars, embedVars>>

NextBatch == BatchIterate \/ BatchReturn

SpecBatch == InitBatch /\ [][NextBatch]_vars

----------------------------------------------------------------------------
(* Claims about compute_suitability_score, under SpecSuitability *)

\* C1: domain cap. For every input with semantic < 0.40 and normalize left
\* true, the returned score is at most 40.0.
C1_DomainCap ==
    (sPc = "done" /\ sIn.normalize /\ sIn.semantic # None /\ sIn.semantic < 40)
        => sOut <= 4000

\* C2: perfect-match floor. For every input with semantic > 0.90 and
\* skillOverlap > 0.80, whatever the experience, the weights and normalize,
\* the returned score is at least 95.0.
C2_PerfectMatchFloor ==
    (sPc = "done" /\ sIn.semantic > 90 /\ sIn.skills > 80) => sOut >= 9500

\* a call where only the floor lifts the score to 95: 0.55*0.91 + 0.30*0.81
\* + 0.05 = 0.7935 without it
C2_Witness ==
    /\ sPc = "done"
    /\ sIn.semantic = 91 /\ sIn.skills = 81 /\ sIn.experience = 0
    /\ sIn.weights = NoWeights /\ ~sIn.normalize
    /\ sOut = 9500

\* C3: the returned score lies in [0,100] for every input (null,
\* negative or above-1 sub-scores, adaptive or explicit weights, normalize
\* true or false).
C3_Bounds ==
    sPc = "done" => (sOut >= 0 /\ sOut <= 10000)

\* a call whose weighted sum is 2.0*0.60 + 0.15*1.0 = 1.35, clamped to 100
C3_Witness ==
    /\ sPc = "done"
    /\ sIn.semantic = 60 /\ sIn.skills = None /\ sIn.experience = 100
    /\ sIn.weights = [semantic |-> 40, skills |-> -20] /\ ~sIn.normalize
    /\ sOut = 10000

\* C9: with explicit weights the three weights applied in the weighted sum
\* are the supplied weights divided by their total (a key that is not
\* supplied weighs nothing), so they sum to 1.
C9_AppliedWeightsSumToOne ==
    (sPc = "done" /\ sIn.weights # NoWeights /\ total_weight(sIn.weights) > 0)
        => /\ sApplied.semantic + sApplied.skills + sApplied.experience = 20
           /\ \A k \in {"semantic", "skills", "experience"} :
                sApplied[k] * total_weight(sIn.weights)
                    = 20 * (IF k \in DOMAIN sIn.weights THEN sIn.weights[k] ELSE 0)

----------------------------------------------------------------------------
(* Claims about the keyword tier of compute_skill_overlap_score, under     *)
(* SpecSkills                                                              *)

\* two normalized skills are the same skill: equal, or in one synonym group
SameSkill(a, b) ==
    a = b \/ \E g \in SynonymGroups : a \in g /\ b \in g

\* C10: in the keyword tier the overlap ratio (before the bonus) is the
\* number of distinct normalized job skills that have an equal or
\* synonym-equivalent resume skill, divided by the number of distinct
\* normalized job skills.
C10_RatioIsFractionOfJobSkills ==
    (kPc = "done" /\ kRatio # <<>>)
        => LET job    == Range(normalized_list(kIn.job_skills))
               resume == Range(normalized_list(kIn.resume_skills))
               found  == { j \in job : \E r \in resume : SameSkill(r, j) }
           IN  kRatio[1] * Cardinality(job) = Cardinality(found) * kRatio[2]

----------------------------------------------------------------------------
(* Claims about MatchingAgent.match, under SpecMatch *)

\* the sub-scores of every call drawn are whole hundredths
SubScoresExact ==
    mPc = "done" =>
        (100 * mLocals.skill_overlap[1]) % mLocals.skill_overlap[2] = 0

\* the sub-steps of match that have a safe default
SubSteps ==
    { "model", "embeddings", "skill_overlap", "experience", "suitability",
      "skill_lists" }

\* C5: the failure of a single sub-step of match (loading the model,
\* generating the embeddings, computing the skill overlap, the experience
\* relevance, the suitability aggregate or the matching/missing skill lists)
\* never aborts the match: no call ends with an exception raised in a
\* sub-step.
C5_SubStepFailureNeverAborts ==
    ~ (mPc = "raised" /\ mOut.at \in SubSteps)

\* the skill-overlap score is that of the keyword tier: normalized skill
\* lists with synonym expansion
OnLexicalPath ==
    /\ ~ mLocals.semantic_tier
    /\ ~ mLocals.overlap_raised
          => mLocals.skill_overlap
                 = keyword_overlap(mLocals.resume_skills, mLocals.jd_skills)

\* C7 as stated: when generating the document embeddings fails, the
\* reported semantic similarity is 0.0 and the skill-overlap score is
\* computed on the lexical path, without the embedding model.
C7_EmbeddingFailureForcesLexicalPath ==
    (mPc = "done" /\ ~ mIn.env.embed)
        => /\ mOut.result.semantic_similarity = 0
           /\ OnLexicalPath

\* C7, amended: when generating the document embeddings fails, the reported
\* semantic similarity is 0.0; the skill-overlap score is computed on the
\* lexical path when the model did not load, and also when it loaded and the
\* tier that uses it found no overlap between the skills of the two texts;
\* when that tier found an overlap, the score is that overlap.
C7_EmbeddingFailure ==
    (mPc = "done" /\ ~ mIn.env.embed)
        => /\ mOut.result.semantic_similarity = 0
           /\ mLocals.semantic_tier => mIn.env.load
           /\ ~ mLocals.semantic_tier => OnLexicalPath
           /\ mLocals.semantic_tier
                 => mLocals.skill_overlap
                        = semantic_tier_overlap(mLocals.model,
                              mLocals.jd_text_normalized,
                              mLocals.resume_text_normalized)

\* a call whose embeddings failed although the documents are 95% similar,
\* and whose skill overlap the loaded model gave: it is not the keyword
\* tier's score
C7_Witness ==
    /\ mPc = "done"
    /\ ~ mIn.env.embed /\ mIn.env.load /\ mIn.env.encodes /\ mIn.env.cosine = 95
    /\ mOut.result.semantic_similarity = 0
    /\ mLocals.semantic_tier
    /\ mLocals.skill_overlap # keyword_overlap(mLocals.resume_skills, mLocals.jd_skills)

\* C8: when match is called without weights, the suitability score is the
\* aggregate under the adaptive weights: 0.65/0.35/0.0 when the job text is
\* entry-level, 0.55/0.30/0.15 otherwise.
C8_AdaptiveWeightsWithoutWeights ==
    (mPc = "done" /\ mIn.weights = NoWeights)
        => /\ applied_weights(mLocals.weights, mLocals.jd_text)
                  = applied_weights(NoWeights, mLocals.jd_text)
           /\ mLocals.suitability_score
                  = compute_suitability_score(mLocals.semantic_similarity,
                        to_hundredths(mLocals.skill_overlap),
                        mLocals.experience_relevance, NoWeights,
                        mLocals.jd_text, TRUE)

----------------------------------------------------------------------------
(* Claims about MatchingAgent.batch_match, under SpecBatch *)

\* the suitability score of the i-th result returned
score_at(i) == bOut[i].result.suitability_score

\* C4: batch_match returns its results ordered by suitability_score
\* non-increasing, and two results of equal score are in the order their
\* resumes had in the input.
C4_StableDescendingSort ==
    bPc = "done" =>
        /\ Len(bOut) = Len(bResults)
        /\ \A i \in 1..Len(bResults) : \E j \in 1..Len(bOut) : bOut[j] = bResults[i]
        /\ \A i, j \in 1..Len(bOut) :
              i < j => /\ score_at(i) >= score_at(j)
                       /\ score_at(i) = score_at(j)
                              => bOut[i].position < bOut[j].position

\* a batch of three whose last resume scores highest and whose first two tie:
\* the sort moves the last to the front and keeps the two in their order
C4_Witness ==
    /\ bPc = "done"
    /\ Len(bOut) = 3
    /\ bOut[1].position = 3 /\ bOut[2].position = 1 /\ bOut[3].position = 2
    /\ score_at(1) > score_at(2)
    /\ score_at(2) = score_at(3)

\* C6: when match raises for some resumes, batch_match processes the others
\* and returns: the output holds exactly one result for each resume whose
\* match did not raise, that resume's, and none for a resume whose match
\* raised.
C6_OneResultPerResumeNotRaised ==
    bPc = "done" =>
        /\ Len(bOut) = Len(bIn.resumes_data) - Cardinality(bRaised)
        /\ { bOut[i].position : i \in 1..Len(bOut) }
               = (1..Len(bIn.resumes_data)) \ bRaised
        /\ \A i \in 1..Len(bOut) :
              bOut[i].result.resume_data = bIn.resumes_data[bOut[i].position]

\* a batch whose first match raised and whose later ones returned
C6_Witness ==
    /\ bPc = "done"
    /\ bRaised = {1}
    /\ Len(bIn.resumes_data) = 3
    /\ Len(bOut) = 2

----------------------------------------------------------------------------
(* Specification of one call of compute_skill_overlap_score(resume_skills,  *)
(* job_skills, model, jd_text, resume_text)                                 *)

OverlapSkillLists ==
    { <<>>,
      << <<"a","w","s">> >>,
      << <<"a","w","s">>, <<"s","q","l">> >>,
      << <<"r","u","s","t">> >>,
      << <<"A","m","a","z","o","n"," ","W","e","b"," ","S","e","r","v","i","c","e","s">> >> }

\* the model argument: None, or a model whose encode raises or returns
Models ==
    { NoModel } \cup
    [ loaded : {TRUE}, encodes : BOOLEAN, similar : SUBSET (1..MaxTokens) ]

\* texts from which extract_skills_dynamic takes no, one and two skills
OverlapTexts ==
    { <<>>,
      <<"a","b">>,
      <<"a","w","s">>,
      <<"a","w","s",","," ","s","q","l">> }

OverlapInputs ==
    [ resume_skills : OverlapSkillLists, job_skills : OverlapSkillLists,
      model : Models, jd_text : OverlapTexts, resume_text : OverlapTexts ]

InitOverlap ==
    /\ fIn \in OverlapInputs
    /\ fOut = <<>>
    /\ fPc = "call"
    /\ SuitIdle
    /\ SkillIdle
    /\ MatchIdle
    /\ BatchIdle
    /\ SessIdle
    /\ EmbedIdle

CallOverlap ==
    /\ fPc = "call"
    /\ fOut' = compute_skill_overlap_score(fIn.resume_skills, fIn.job_skills,
                                           fIn.model, fIn.jd_text, fIn.resume_text)
    /\ fPc' = "done"
    /\ UNCHANGED <<fIn, suitVars, skillVars, matchVars, batchVars, sessVars, embedVars>>

NextOverlap == CallOverlap

SpecOverlap == InitOverlap /\ [][NextOverlap]_vars

----------------------------------------------------------------------------
(* Claims about compute_skill_overlap_score with a model, under SpecOverlap *)

\* a model and both texts are given, and one of the texts yields no skill
NoTokenOnOneSide ==
    /\ fIn.model.loaded
    /\ fIn.jd_text # <<>>
    /\ fIn.resume_text # <<>>
    /\ \/ extract_skills_dynamic(fIn.jd_text) = <<>>
       \/ extract_skills_dynamic(fIn.resume_text) = <<>>

\* C11 as stated: given a model and both texts, when dynamic extraction
\* yields no token for the job text or none for the resume text, the score
\* returned is 0.0 whatever the two skill lists are.
C11_NoTokenGivesZero ==
    (fPc = "done" /\ NoTokenOnOneSide) => fOut[1] = 0

\* C11, amended: given a model and both texts, when dynamic extraction
\* yields no token for the job text or none for the resume text, the score
\* returned is the keyword score of the two skill lists (0.0 only when that
\* is 0.0).
C11_NoTokenGivesKeywordScore ==
    (fPc = "done" /\ NoTokenOnOneSide)
        => fOut = keyword_overlap(fIn.resume_skills, fIn.job_skills)

\* a call with a working model and a job text without skills, that returns
\* the 1.0 of the two equal skill lists
C11_Witness ==
    /\ fPc = "done"
    /\ NoTokenOnOneSide
    /\ fIn.model.encodes
    /\ extract_skills_dynamic(fIn.jd_text) = <<>>
    /\ fIn.resume_skills = << <<"a","w","s">> >>
    /\ fIn.job_skills = << <<"a","w","s">> >>
    /\ fOut[1] = fOut[2]
\* the semantic tier is tried, both texts yield skills and the encoding of
\* the model raises
EncodingFails ==
    /\ fIn.model.loaded
    /\ ~ fIn.model.encodes
    /\ extract_skills_dynamic(fIn.jd_text) # <<>>
    /\ extract_skills_dynamic(fIn.resume_text) # <<>>

\* two overlaps, as fractions, are the same number
SameFraction(a, b) == a[1] * b[2] = b[1] * a[2]

\* C12: when the encoding of the model fails during the semantic tier, the
\* value returned is exactly the keyword score of the supplied resume_skills
\* and job_skills (normalization, synonym expansion, intersection ratio over
\* the job set, bonus, clamp).
C12_EncodingFailureGivesKeywordScore ==
    (fPc = "done" /\ EncodingFails)
        => SameFraction(fOut, keyword_overlap(fIn.resume_skills, fIn.job_skills))

----------------------------------------------------------------------------
(* Claims about the skill lists of MatchingAgent.match, under SpecMatch *)

\* the normalized forms of a list of skills, the empty one left out
NormalizedForms(skills) == Range(normalize_all(skills)) \ {<<>>}

\* a list holds no two skills of one normalized form
NoDuplicates(skills) ==
    \A i, j \in 1..Len(skills) :
        normalize_skill(skills[i]) = normalize_skill(skills[j]) => i = j

\* Scenario D: a resume with an empty skill list, a job with skills
ScenarioD ==
    /\ mPc = "done"
    /\ mIn.resume_data.skills = <<>>
    /\ mIn.jd_data.all_skills # <<>>

----------------------------------------------------------------------------
(* Specification of one call of normalize_skill(skill) *)

\* longest skill drawn
MaxSkillLen == 5

\* a letter, the separators of a category prefix and the space
SkillChars == {"a", "-", ":", "|", " "}

SkillStrings == UNION { [1..n -> SkillChars] : n \in 0..MaxSkillLen }

InitNormalize ==
    /\ fIn \in SkillStrings
    /\ fOut = <<>>
    /\ fPc = "call"
    /\ SuitIdle
    /\ SkillIdle
    /\ MatchIdle
    /\ BatchIdle
    /\ SessIdle
    /\ EmbedIdle

CallNormalizeSkill ==
    /\ fPc = "call"
    /\ fOut' = normalize_skill(fIn)
    /\ fPc' = "done"
    /\ UNCHANGED <<fIn, suitVars, skillVars, matchVars, batchVars, sessVars, embedVars>>

NextNormalize == CallNormalizeSkill

SpecNormalize == InitNormalize /\ [][NextNormalize]_vars

\* C14: normalize_skill is idempotent: normalize_skill(normalize_skill(s))
\* = normalize_skill(s) for every str s, also one with several ':', '-' or
\* '|' separators.
C14_NormalizeSkillIdempotent ==
    fPc = "done" => normalize_skill(fOut) = fOut

----------------------------------------------------------------------------
(* Specification of two calls of expand_skill_synonyms, for two skills *)

Rust == <<"r","u","s","t">>

\* the keys and the synonyms of the table as they are written, and a skill
\* that is not in it
TableSkills ==
    UNION { {SYNONYMS[i].key} \cup Range(SYNONYMS[i].synonyms) : i \in 1..Len(SYNONYMS) }
        \cup {Rust}

InitSynonyms ==
    /\ fIn \in [ a : TableSkills, b : TableSkills ]
    /\ fOut = <<>>
    /\ fPc = "call"
    /\ SuitIdle
    /\ SkillIdle
    /\ MatchIdle
    /\ BatchIdle
    /\ SessIdle
    /\ EmbedIdle

CallExpandSkillSynonyms ==
    /\ fPc = "call"
    /\ fOut' = [ a |-> expand_skill_synonyms(fIn.a), b |-> expand_skill_synonyms(fIn.b) ]
    /\ fPc' = "done"
    /\ UNCHANGED <<fIn, suitVars, skillVars, matchVars, batchVars, sessVars, embedVars>>

NextSynonyms == CallExpandSkillSynonyms

SpecSynonyms == InitSynonyms /\ [][NextSynonyms]_vars

\* C15: expand_skill_synonyms defines equivalence classes: for all skills a
\* and b, if the normalized form of b is in expand_skill_synonyms(a) then
\* expand_skill_synonyms(a) = expand_skill_synonyms(b).
C15_SynonymClasses ==
    (fPc = "done" /\ normalize_skill(fIn.b) \in fOut.a) => fOut.a = fOut.b

----------------------------------------------------------------------------
(* Specification of one call of compute_experience_relevance(               *)
(* resume_experience_years, job_required_experience, resume_text, jd_text)  *)

\* years of the candidate, in tenths: missing, none, one, three, five
CandidateYears == {None, 0, 10, 30, 50}

\* years required, in tenths: missing, none, two, five, ten, and a str
RequiredYears == {None, 0, 20, 50, 100, NonNumeric}

\* no text, two texts with an entry-level term, one without
ExperienceTexts ==
    { <<>>,
      <<"s","u","m","m","e","r"," ","I","n","t","e","r","n">>,
      <<"F","r","e","s","h"," ","g","r","a","d","u","a","t","e">>,
      <<"s","e","n","i","o","r">> }

InitExperience ==
    /\ fIn \in [ resume_experience_years : CandidateYears,
                 job_required_experience : RequiredYears,
                 resume_text : ExperienceTexts,
                 jd_text : ExperienceTexts ]
    /\ fOut = <<>>
    /\ fPc = "call"
    /\ SuitIdle
    /\ SkillIdle
    /\ MatchIdle
    /\ BatchIdle
    /\ SessIdle
    /\ EmbedIdle

CallExperienceRelevance ==
    /\ fPc = "call"
    /\ fOut' = IF compute_experience_relevance_raises(
                     fIn.resume_experience_years, fIn.job_required_experience,
                     fIn.resume_text, fIn.jd_text)
                THEN [ raised |-> TRUE, value |-> 0 ]
                ELSE [ raised |-> FALSE,
                       value |-> compute_experience_relevance(
                           fIn.resume_experience_years, fIn.job_required_experience,
                           fIn.resume_text, fIn.jd_text) ]
    /\ fPc' = "done"
    /\ UNCHANGED <<fIn, suitVars, skillVars, matchVars, batchVars, sessVars, embedVars>>

NextExperience == CallExperienceRelevance

SpecExperience == InitExperience /\ [][NextExperience]_vars

\* both texts are supplied and both are detected entry-level
BothEntryLevel ==
    /\ fIn.resume_text # <<>>
    /\ fIn.jd_text # <<>>
    /\ is_entry_level_role(fIn.resume_text)
    /\ is_entry_level_role(fIn.jd_text)

\* C16: when both the resume text and the job text are supplied and both are
\* detected entry-level, compute_experience_relevance returns exactly 1.0
\* for every years of the candidate and every years required, also for no
\* years of the candidate against many years required.
C16_EntryLevelShortcut ==
    (fPc = "done" /\ BothEntryLevel) =>
        (~ fOut.raised /\ fOut.value = 100)

\* no years of the candidate against ten years required, both entry-level
C16_Witness ==
    /\ fPc = "done"
    /\ BothEntryLevel
    /\ fIn.resume_experience_years = 0
    /\ fIn.job_required_experience = 100
    /\ fOut = [ raised |-> FALSE, value |-> 100 ]

----------------------------------------------------------------------------
(* agents/resume_parser_agent.py: ResumeParsingAgent._extract_skills and    *)
(* agents/jd_parser_agent.py: JDParsingAgent._extract_common_skills.        *)
(* The file data/skills_master_list.json is a record: kind is "missing"     *)
(* (os.path.exists is False), "unreadable" (open raises OSError),           *)
(* "invalid" (json.load raises JSONDecodeError), "list" (a JSON array of    *)
(* str, items), "object" (the JSON object {}) or "number" (the JSON 5).     *)

\* resume_parser_agent.py lines 99-107
resume_fallback_list ==
    << <<"p","y","t","h","o","n">>,
       <<"j","a","v","a">>,
       <<"j","a","v","a","s","c","r","i","p","t">>,
       <<"t","y","p","e","s","c","r","i","p","t">>,
       <<"c","+","+">>,
       <<"c","#">>,
       <<"g","o">>,
       <<"r","u","s","t">>,
       <<"r","e","a","c","t">>,
       <<"a","n","g","u","l","a","r">>,
       <<"v","u","e">>,
       <<"n","o","d","e",".","j","s">>,
       <<"d","j","a","n","g","o">>,
       <<"f","l","a","s","k">>,
       <<"s","p","r","i","n","g">>,
       <<"t","e","n","s","o","r","f","l","o","w">>,
       <<"p","y","t","o","r","c","h">>,
       <<"k","e","r","a","s">>,
       <<"s","c","i","k","i","t","-","l","e","a","r","n">>,
       <<"m","a","c","h","i","n","e"," ","l","e","a","r","n","i","n","g">>,
       <<"d","e","e","p"," ","l","e","a","r","n","i","n","g">>,
       <<"n","l","p">>,
       <<"c","o","m","p","u","t","e","r"," ","v","i","s","i","o","n">>,
       <<"a","w","s">>,
       <<"a","z","u","r","e">>,
       <<"g","c","p">>,
       <<"d","o","c","k","e","r">>,
       <<"k","u","b","e","r","n","e","t","e","s">>,
       <<"j","e","n","k","i","n","s">>,
       <<"g","i","t">>,
       <<"s","q","l">>,
       <<"n","o","s","q","l">>,
       <<"m","o","n","g","o","d","b">>,
       <<"p","o","s","t","g","r","e","s","q","l">>,
       <<"m","y","s","q","l">>,
       <<"r","e","d","i","s">>,
       <<"e","l","a","s","t","i","c","s","e","a","r","c","h">>,
       <<"k","a","f","k","a">>,
       <<"s","p","a","r","k">>,
       <<"h","a","d","o","o","p">>,
       <<"t","a","b","l","e","a","u">>,
       <<"p","o","w","e","r"," ","b","i">>,
       <<"a","g","i","l","e">>,
       <<"s","c","r","u","m">>,
       <<"c","i","/","c","d">> >>

\* jd_parser_agent.py lines 200-210
jd_fallback_list ==
    << <<"p","y","t","h","o","n">>,
       <<"j","a","v","a">>,
       <<"j","a","v","a","s","c","r","i","p","t">>,
       <<"t","y","p","e","s","c","r","i","p","t">>,
       <<"c","+","+">>,
       <<"c","#">>,
       <<"g","o">>,
       <<"r","u","s","t">>,
       <<"r","e","a","c","t">>,
       <<"a","n","g","u","l","a","r">>,
       <<"v","u","e">>,
       <<"n","o","d","e",".","j","s">>,
       <<"d","j","a","n","g","o">>,
       <<"f","l","a","s","k">>,
       <<"f","a","s","t","a","p","i">>,
       <<"s","p","r","i","n","g">>,
       <<"t","e","n","s","o","r","f","l","o","w">>,
       <<"p","y","t","o","r","c","h">>,
       <<"k","e","r","a","s">>,
       <<"s","c","i","k","i","t","-","l","e","a","r","n">>,
       <<"m","a","c","h","i","n","e"," ","l","e","a","r","n","i","n","g">>,
       <<"d","e","e","p"," ","l","e","a","r","n","i","n","g">>,
       <<"n","l","p">>,
       <<"n","a","t","u","r","a","l"," ","l","a","n","g","u","a","g","e"," ","p","r","o","c","e","s","s","i","n","g">>,
       <<"c","o","m","p","u","t","e","r"," ","v","i","s","i","o","n">>,
       <<"a","w","s">>,
       <<"a","m","a","z","o","n"," ","w","e","b"," ","s","e","r","v","i","c","e","s">>,
       <<"a","z","u","r","e">>,
       <<"g","c","p">>,
       <<"g","o","o","g","l","e"," ","c","l","o","u","d">>,
       <<"d","o","c","k","e","r">>,
       <<"k","u","b","e","r","n","e","t","e","s">>,
       <<"j","e","n","k","i","n","s">>,
       <<"g","i","t">>,
       <<"s","q","l">>,
       <<"n","o","s","q","l">>,
       <<"m","o","n","g","o","d","b">>,
       <<"p","o","s","t","g","r","e","s","q","l">>,
       <<"m","y","s","q","l">>,
       <<"r","e","d","i","s">>,
       <<"e","l","a","s","t","i","c","s","e","a","r","c","h">>,
       <<"k","a","f","k","a">>,
       <<"a","p","a","c","h","e"," ","s","p","a","r","k">>,
       <<"h","a","d","o","o","p">>,
       <<"t","a","b","l","e","a","u">>,
       <<"p","o","w","e","r"," ","b","i">>,
       <<"a","g","i","l","e">>,
       <<"s","c","r","u","m">>,
       <<"c","i","/","c","d">>,
       <<"t","e","r","r","a","f","o","r","m">>,
       <<"a","n","s","i","b","l","e">>,
       <<"l","i","n","u","x">>,
       <<"u","n","i","x">>,
       <<"r","e","s","t"," ","a","p","i">>,
       <<"g","r","a","p","h","q","l">>,
       <<"m","i","c","r","o","s","e","r","v","i","c","e","s">> >>

fallback_list(parser) ==
    IF parser = "resume" THEN resume_fallback_list ELSE jd_fallback_list

\* skills_master_list after the try statement (resume lines 89-107, jd lines
\* 190-210): the except clause, which alone assigns the built-in list, runs
\* when open or json.load raises; a file that does not exist raises nothing
\* and leaves the [] of line 90 (191)
load_skills_master_list(parser, file) ==
    IF file.kind \in {"unreadable", "invalid"} THEN fallback_list(parser)
    ELSE IF file.kind = "list" THEN file.items
    ELSE <<>>

\* for skill in skills_master_list (line 112, 216), outside the try
\* statement: an int is not iterable, TypeError
master_list_raises(file) == file.kind = "number"

cased(c) == c \in DOMAIN LowerOf \/ \E u \in DOMAIN LowerOf : LowerOf[u] = c

UpperChar(c) ==
    IF \E u \in DOMAIN LowerOf : LowerOf[u] = c
    THEN CHOOSE u \in DOMAIN LowerOf : LowerOf[u] = c
    ELSE c

\* str.title()
title(s) ==
    [ i \in 1..Len(s) |->
        IF i = 1 \/ ~ cased(s[i - 1]) THEN UpperChar(s[i]) ELSE LowerChar(s[i]) ]

\* the loop over the master list (resume lines 112-121, jd lines 216-226):
\* the formatted skills the text contains, each once, in the order of the
\* list
skills_found(skills_master_list, text_lower, found) ==
    LET contained == { i \in 1..Len(skills_master_list) :
                         Contains(text_lower, lower(skills_master_list[i])) }
        appended == { i \in contained :
                        /\ title(skills_master_list[i]) \notin Range(found)
                        /\ \A j \in contained :
                              j < i => title(skills_master_list[j])
                                          # title(skills_master_list[i]) }
        nth(k) == CHOOSE i \in appended :
                      Cardinality({ j \in appended : j <= i }) = k
    IN  found \o [ k \in 1..Cardinality(appended) |->
                     title(skills_master_list[nth(k)]) ]

\* resume lines 138-146: the first skill of each normalized form
RECURSIVE skills_deduped(_, _, _)
skills_deduped(skills, seen_normalized, deduped) ==
    IF skills = <<>> THEN deduped
    ELSE LET normalized == normalize_skill(Head(skills))
         IN  IF normalized # <<>> /\ normalized \notin seen_normalized
             THEN skills_deduped(Tail(skills),
                                 seen_normalized \cup {normalized},
                                 Append(deduped, Head(skills)))
             ELSE skills_deduped(Tail(skills), seen_normalized, deduped)

\* a line of the text names a skills section (_extract_section, resume lines
\* 294-319, with ['skills', 'technical skills', 'competencies'])
names_skills_section(text) ==
    \/ Contains(lower(text), <<"s","k","i","l","l","s">>)
    \/ Contains(lower(text), <<"c","o","m","p","e","t","e","n","c","i","e","s">>)

\* ResumeParsingAgent._extract_skills(text, doc) for a text that names no
\* skills section: _extract_section returns None and lines 125-136 add
\* nothing
extract_skills(text, file) ==
    LET skills == skills_found(load_skills_master_list("resume", file),
                               lower(text), <<>>)
        deduped == skills_deduped(skills, {}, <<>>)
    IN  SubSeq(deduped, 1, Min(50, Len(deduped)))

\* JDParsingAgent._extract_common_skills(text)
extract_common_skills(text, file) ==
    skills_found(load_skills_master_list("jd", file), lower(text), <<>>)

----------------------------------------------------------------------------
(* Specification of one call of the vocabulary-driven extractor of a parser *)

Parsers == {"resume", "jd"}

\* the contents of a vocabulary file that holds a JSON array of str
VocabularyLists ==
    { <<>>,
      << <<"p","y","t","h","o","n">> >>,
      << <<"a","w","s">>, <<"N","o","d","e",".","j","s">> >> }

VocabularyFiles ==
    { [ kind |-> k, items |-> <<>> ] :
        k \in {"missing", "unreadable", "invalid", "object", "number"} }
    \cup { [ kind |-> "list", items |-> l ] : l \in VocabularyLists }

\* texts that name no skills section
ParserTexts ==
    { <<>>,
      <<"P","y","t","h","o","n"," ","a","n","d"," ","A","W","S">>,
      <<"n","o","d","e",".","j","s",","," ","C","I","/","C","D">>,
      <<"r","u","s","t">>,
      <<"J","a","v","a","S","c","r","i","p","t",","," ","S","Q","L"," ","&"," ","g","i","t">> }

InitVocabulary ==
    /\ fIn \in [ parser : Parsers, file : VocabularyFiles, text : ParserTexts ]
    /\ fOut = <<>>
    /\ fPc = "call"
    /\ SuitIdle
    /\ SkillIdle
    /\ MatchIdle
    /\ BatchIdle
    /\ SessIdle
    /\ EmbedIdle

CallExtractor ==
    /\ fPc = "call"
    /\ fOut' = IF master_list_raises(fIn.file)
                THEN [ raised |-> TRUE, vocabulary |-> <<>>, skills |-> <<>> ]
                ELSE [ raised |-> FALSE,
                       vocabulary |-> load_skills_master_list(fIn.parser, fIn.file),
                       skills |-> IF fIn.parser = "resume"
                                  THEN extract_skills(fIn.text, fIn.file)
                                  ELSE extract_common_skills(fIn.text, fIn.file) ]
    /\ fPc' = "done"
    /\ UNCHANGED <<fIn, suitVars, skillVars, matchVars, batchVars, sessVars, embedVars>>

NextVocabulary == CallExtractor

SpecVocabulary == InitVocabulary /\ [][NextVocabulary]_vars

\* the vocabulary file is missing, unreadable or corrupt
VocabularyUnavailable == fIn.file.kind \in {"missing", "unreadable", "invalid"}

\* C17: when the external skill vocabulary is unavailable (the file is
\* missing, unreadable or corrupt), the extractor of both parsers uses the
\* built-in skill list: it does not fail and does not run with an empty
\* vocabulary.
C17_VocabularyFallback ==
    (fPc = "done" /\ VocabularyUnavailable) =>
        (~ fOut.raised /\ fOut.vocabulary = fallback_list(fIn.parser))

----------------------------------------------------------------------------
(* Specification of a sequence of match and batch_match calls on one        *)
(* MatchingAgent. hHeap holds the objects the calls can reach:              *)
(*   default_weights  the dictionary of the agent (lines 32-36)             *)
(*   weights          the mapping the caller passes                         *)
(*   resumes_data     the caller's list of resume dictionaries              *)
(*   jd_data          the caller's job dictionary                           *)
(*   local_weights    the dictionary line 576 of scoring.py builds, NoWeights *)
(*                    before the first one is built                         *)
(* hInit is hHeap as it was before the first call, hLast the last call and  *)
(* what it returned, hCalls the number of calls made.                       *)

\* most calls of a session
MaxCalls == 2

\* most resumes the caller holds
MaxSessionResumes == 2

SessionResumes == {ResumeAnn, ResumeBob}

SessionResumeLists == UNION { [1..n -> SessionResumes] : n \in 1..MaxSessionResumes }

\* the caller's mapping: 0.5/0.3/0.2, and 1.0/1.0, which does not sum to 1
SessionWeights ==
    { [semantic |-> 10, skills |-> 6, experience |-> 4],
      [semantic |-> 20, skills |-> 20] }

\* the weights argument of a call: None, or the caller's mapping
WeightRefs == {"None", "weights"}

\* the provider during a session: no model for the skills, embeddings returned
SessionEnvs == { env \in BatchEnvs : TRUE }

\* lines 572-576 of scoring.py, the comprehension: the weights divided by
\* their total
normalized_weights(weights) ==
    IF total_weight(weights) > 0
    THEN [ k \in DOMAIN weights |-> (weights[k] * 20) \div total_weight(weights) ]
    ELSE weights

\* line 576 with the division done in the dictionary that was passed
heap_after_weights_in_place(heap, ref) ==
    [ heap EXCEPT ![ref] = normalized_weights(heap[ref]) ]

\* line 576: weights = {k: v / total_weight ...} builds a new dictionary and
\* binds the local name to it; the dictionary that was passed is not written
heap_after_weights(heap, ref) ==
    [ heap EXCEPT !["local_weights"] = normalized_weights(heap[ref]) ]

\* lines 55-56 of matching_agent.py: the dictionary the local name weights
\* refers to
weights_object(ref) == IF ref = "None" THEN "default_weights" ELSE ref

\* the contents a weights dictionary of a session can have
SessionWeightContents ==
    LET given == SessionWeights \cup {default_weights}
    IN  given \cup { normalized_weights(w) : w \in given }

\* what the caller of match sees: the dictionary returned, or the exception
returned(outcome) ==
    IF outcome.raised THEN outcome
    ELSE [ raised |-> FALSE, result |-> outcome.result ]

\* match on the arguments a session draws, computed once (@@ makes the
\* function a table)
session_match_memo ==
    [ a \in [ resume_data : SessionResumes, jd_data : BatchJds,
              weights : SessionWeightContents, env : SessionEnvs ] |->
        returned(match(a.resume_data, a.jd_data, a.weights, a.env)) ] @@ <<>>

\* one call of match on the heap: what it returns or where it raised, and
\* the heap it leaves. compute_suitability_score is reached unless the texts
\* raised (line 87)
match_on_heap(heap, resume_data, ref, env) ==
    LET outcome == session_match_memo[[ resume_data |-> resume_data,
                                        jd_data |-> heap.jd_data,
                                        weights |-> heap[weights_object(ref)],
                                        env |-> env ]]
    IN  [ outcome |-> outcome,
          heap |-> IF outcome.raised /\ outcome.at = "texts" THEN heap
                   ELSE heap_after_weights(heap, weights_object(ref)) ]

\* lines 272-278 of batch_match: the loop from the i-th resume on, results
\* the list built so far
RECURSIVE batch_on_heap(_, _, _, _, _)
batch_on_heap(heap, i, results, ref, env) ==
    IF i > Len(heap.resumes_data)
    THEN [ out |-> sort_by_score(results, Len(results)), heap |-> heap ]
    ELSE LET call == match_on_heap(heap, heap.resumes_data[i], ref, env)
         IN  batch_on_heap(call.heap, i + 1, collect(results, i, call.outcome), ref, env)

InitSession ==
    /\ hInit \in [ default_weights : {default_weights},
                   weights : SessionWeights,
                   resumes_data : SessionResumeLists,
                   jd_data : BatchJds,
                   local_weights : {NoWeights} ]
    /\ hHeap = hInit
    /\ hLast = <<>>
    /\ hCalls = 0
    /\ SuitIdle
    /\ SkillIdle
    /\ MatchIdle
    /\ BatchIdle
    /\ FnIdle
    /\ EmbedIdle

\* agent.match(resumes_data[i], jd_data, weights)
SessionMatch ==
    /\ hCalls < MaxCalls
    /\ \E i \in 1..Len(hHeap.resumes_data), ref \in WeightRefs, env \in SessionEnvs :
          LET call == match_on_heap(hHeap, hHeap.resumes_data[i], ref, env)
          IN  /\ hHeap' = call.heap
              /\ hLast' = [ method |-> "match", i |-> i, ref |-> ref, env |-> env,
                            outcome |-> call.outcome, out |-> <<>> ]
    /\ hCalls' = hCalls + 1
    /\ UNCHANGED <<hInit, suitVars, skillVars, matchVars, batchVars, fnVars, embedVars>>

\* agent.batch_match(resumes_data, jd_data, weights)
SessionBatchMatch ==
    /\ hCalls < MaxCalls
    /\ \E ref \in WeightRefs, env \in SessionEnvs :
          LET call == batch_on_heap(hHeap, 1, <<>>, ref, env)
          IN  /\ hHeap' = call.heap
              /\ hLast' = [ method |-> "batch_match", i |-> 0, ref |-> ref, env |-> env,
                            outcome |-> raised_at("none"), out |-> call.out ]
    /\ hCalls' = hCalls + 1
    /\ UNCHANGED <<hInit, suitVars, skillVars, matchVars, batchVars, fnVars, embedVars>>

NextSession == SessionMatch \/ SessionBatchMatch

SpecSession == InitSession /\ [][NextSession]_vars

\* the objects of the agent and of the caller
SharedObjects == {"default_weights", "weights", "resumes_data", "jd_data"}

\* what the last call returns when it is the first call on the objects as
\* they were constructed, each resume of a batch matched on its own
AloneMatch(i) ==
    session_match_memo[[ resume_data |-> hInit.resumes_data[i],
                         jd_data |-> hInit.jd_data,
                         weights |-> hInit[weights_object(hLast.ref)],
                         env |-> hLast.env ]]

\* C18: no mutable shared state. After any sequence of match and
\* batch_match calls the agent's default_weights, the caller's weights
\* mapping and the input resume and job documents are unchanged, and what a
\* match returns depends on its own arguments and the provider only: not on
\* earlier calls, not on the other resumes of a batch.
C18_NoSharedMutableState ==
    /\ \A o \in SharedObjects : hHeap[o] = hInit[o]
    /\ (hCalls > 0 /\ hLast.method = "match") =>
           hLast.outcome = AloneMatch(hLast.i)
    /\ (hCalls > 0 /\ hLast.method = "batch_match") =>
           \A j \in 1..Len(hLast.out) :
               LET alone == AloneMatch(hLast.out[j].position)
               IN  ~ alone.raised /\ hLast.out[j].result = alone.result

\* a batch with the caller's 1.0/1.0 mapping after an earlier call: the
\* scoring built the dictionary 0.5/0.5 and the mapping still holds 1.0/1.0
C18_Witness ==
    /\ hCalls = MaxCalls
    /\ hLast.method = "batch_match"
    /\ hLast.ref = "weights"
    /\ Len(hLast.out) = 2
    /\ hHeap.weights = [semantic |-> 20, skills |-> 20]
    /\ hHeap.local_weights = [semantic |-> 10, skills |-> 10]

----------------------------------------------------------------------------
(* Claims about the order and the spelling of the skill lists of            *)
(* MatchingAgent.match, under SpecMatch                                     *)

\* where the normalized form of a skill occurs first in a list of skills,
\* 0 when it does not occur
FirstOccurrence(skill, skills) ==
    IF \E k \in 1..Len(skills) : normalize_skill(skills[k]) = normalize_skill(skill)
    THEN CHOOSE k \in 1..Len(skills) :
             /\ normalize_skill(skills[k]) = normalize_skill(skill)
             /\ \A l \in 1..(k - 1) : normalize_skill(skills[l]) # normalize_skill(skill)
    ELSE 0

\* the skills of listed that occur in skills follow the order of their first
\* occurrence in skills
InDiscoveryOrder(listed, skills) ==
    \A i, j \in 1..Len(listed) :
        (/\ i < j
         /\ FirstOccurrence(listed[i], skills) > 0
         /\ FirstOccurrence(listed[j], skills) > 0)
            => FirstOccurrence(listed[i], skills) < FirstOccurrence(listed[j], skills)

\* C19: in every result, matching_skills and missing_skills are listed in
\* discovery order, the order of first occurrence of each skill in the input
\* skill lists, with later duplicates by normalized form removed.
C19_DiscoveryOrder ==
    mPc = "done"
        => /\ NoDuplicates(mOut.result.matching_skills)
           /\ NoDuplicates(mOut.result.missing_skills)
           /\ \/ InDiscoveryOrder(mOut.result.matching_skills, mIn.resume_data.skills)
              \/ InDiscoveryOrder(mOut.result.matching_skills, mIn.jd_data.all_skills)
           /\ \/ InDiscoveryOrder(mOut.result.missing_skills, mIn.jd_data.skills_required)
              \/ InDiscoveryOrder(mOut.result.missing_skills, mIn.jd_data.all_skills)

\* the lists of the result are those of the keyword tier (lines 185-194): no
\* model, or a model whose tier matched no skill
LexicalLists ==
    ~ (/\ mLocals.model.loaded
       /\ compute_semantic_skill_overlap(mLocals.model, mLocals.jd_text_normalized,
                                         mLocals.resume_text_normalized).matched # <<>>)

\* every skill listed is the spelling, cleaned for display, of the first
\* skill of its normalized form in skills
FirstSeenSpelling(listed, skills) ==
    \A i \in 1..Len(listed) :
        /\ FirstOccurrence(listed[i], skills) > 0
        /\ listed[i] = rstrip_punctuation(strip(skills[FirstOccurrence(listed[i], skills)]))

\* C20: in the lexical tier, when several input skills share one normalized
\* form, the matching and missing skill lists show the first-seen original
\* spelling of that form, the earliest such entry of the input list, never
\* a later one.
C20_FirstSeenSpelling ==
    (mPc = "done" /\ LexicalLists)
        => /\ FirstSeenSpelling(mOut.result.matching_skills, mIn.resume_data.skills)
           /\ FirstSeenSpelling(mOut.result.missing_skills, mIn.jd_data.skills_required)

----------------------------------------------------------------------------
(* Claims about compute_experience_relevance, under SpecExperience *)

\* some years of the candidate against a number of years required
SomeExperience ==
    /\ fIn.resume_experience_years # None
    /\ fIn.resume_experience_years > 0
    /\ fIn.job_required_experience # None
    /\ fIn.job_required_experience # NonNumeric
    /\ fIn.job_required_experience >= 0

\* C25: for every years of the candidate above 0 and every years required
\* of 0 or more, whatever the texts, compute_experience_relevance returns at
\* least 0.3.
C25_ExperienceFloor ==
    (fPc = "done" /\ SomeExperience) =>
        (~ fOut.raised /\ fOut.value >= 30)

\* one year against ten required, no text: 0.1 ** 0.7 is under 0.2 and 0.3
\* is returned
C25_Witness ==
    /\ fPc = "done"
    /\ fIn.resume_experience_years = 10
    /\ fIn.job_required_experience = 100
    /\ fIn.resume_text = <<>>
    /\ Pow07[10] < 30
    /\ fOut = [ raised |-> FALSE, value |-> 30 ]

----------------------------------------------------------------------------
(* Further claims about compute_suitability_score, under SpecSuitability *)

\* the score after the normalisation stage (lines 578-595), in units of
\* 1/One
normalized_stage(semantic_similarity, skill_overlap, experience_relevance, weights, jd_text, normalize) ==
    apply_normalize(
        domain_penalty(
            weighted_sum(clamp_input(semantic_similarity), clamp_input(skill_overlap),
                         clamp_input(experience_relevance), weights, jd_text),
            clamp_input(semantic_similarity)),
        normalize)

\* the stages of lines 597-611 leave a score as it is
NoStageFires(score, sem, sk) ==
    /\ domain_bonus(score, sem, sk) = score
    /\ perfect_match(score, sem, sk) = score
    /\ micro_boost(score, sem) = score

\* the call of the state with one sub-score replaced
ScoreWith(semantic, skills, experience) ==
    compute_suitability_score(semantic, skills, experience,
                              sIn.weights, sIn.jd_text, sIn.normalize)

\* the numbers a sub-score is drawn from that are above v
Above(values, v) == { w \in values \ {None} : w > v }

\* C26: with the adaptive weights and normalize true, the returned score is
\* monotone non-decreasing in each of semantic, skill overlap and experience
\* relevance, the other two inputs and the job text held fixed.
C26_Monotone ==
    (/\ sPc = "done" /\ sIn.weights = NoWeights /\ sIn.normalize
     /\ sIn.semantic # None /\ sIn.skills # None /\ sIn.experience # None)
        => /\ \A w \in Above(SemanticValues, sIn.semantic) :
                 ScoreWith(w, sIn.skills, sIn.experience) >= sOut
           /\ \A w \in Above(SkillValues, sIn.skills) :
                 ScoreWith(sIn.semantic, w, sIn.experience) >= sOut
           /\ \A w \in Above(ExperienceValues, sIn.experience) :
                 ScoreWith(sIn.semantic, sIn.skills, w) >= sOut

\* a capped call, 0.39/1.0/1.0 returning 51.0, next to the call 0.40/1.0/1.0
\* that the cap leaves alone
C26_Witness ==
    /\ sPc = "done" /\ sIn.weights = NoWeights /\ sIn.normalize
    /\ sIn.semantic = 39 /\ sIn.skills = 100 /\ sIn.experience = 100
    /\ sOut = 5100
    /\ ScoreWith(40, 100, 100) > sOut

\* C27: with normalize true, for every input with semantic < 0.40 and any
\* weights, the returned score is at most 51.0 and none of the bonus,
\* perfect-match and micro-boost stages fires.
C27_CappedAtFiftyOne ==
    (sPc = "done" /\ sIn.normalize /\ clamp_input(sIn.semantic) < 40)
        => /\ sOut <= 5100
           /\ NoStageFires(normalized_stage(sIn.semantic, sIn.skills, sIn.experience,
                                            sIn.weights, sIn.jd_text, sIn.normalize),
                           clamp_input(sIn.semantic), clamp_input(sIn.skills))

\* a call whose weighted sum, 2.0*0.39 + 0.15, is above 0.40: 51.0 returned
C27_Witness ==
    /\ sPc = "done" /\ sIn.normalize
    /\ sIn.semantic = 39 /\ sIn.skills = 0 /\ sIn.experience = 100
    /\ sIn.weights = [semantic |-> 40, skills |-> -20]
    /\ sOut = 5100

\* C28: with normalize true, the returned score is above 95.0 only if
\* semantic > 0.85 and skill overlap > 0.70, or semantic > 0.95.
C28_AboveNinetyFive ==
    (sPc = "done" /\ sIn.normalize /\ sOut > 9500)
        => \/ clamp_input(sIn.semantic) > 85 /\ clamp_input(sIn.skills) > 70
           \/ clamp_input(sIn.semantic) > 95

\* 0.85/1.0/1.0: the weighted sum 0.9175 is normalised to 0.95, no stage
\* fires and 95.0 is returned
C28_Witness ==
    /\ sPc = "done" /\ sIn.normalize /\ sIn.weights = NoWeights
    /\ sIn.semantic = 85 /\ sIn.skills = 100 /\ sIn.experience = 100
    /\ sOut = 9500

----------------------------------------------------------------------------
(* Claims about the texts MatchingAgent.match hands to the skill-overlap    *)
(* scorer, under SpecMatch                                                  *)

\* the characters extract_skills_dynamic splits on (line 165)
DynamicSeparators == {",", "NL", ";", "BULLET", "|"}

\* the two texts handed to compute_skill_overlap_score (lines 94-95, 130-131)
HandedTexts == { mLocals.jd_text_normalized, mLocals.resume_text_normalized }

\* C29: in match, the texts handed to the skill-overlap scorer are outputs
\* of normalize_text and hold none of the separators the dynamic extractor
\* splits on; the extractor yields at most one token per document, and none
\* for a normalized text of 50 or more characters; and whenever one of the
\* two normalized texts has 50 or more characters, the skill overlap of the
\* result is that of the lexical tier, although the model is available.
C29_LongTextsLeaveLexicalTier ==
    mPc = "done"
        => /\ \A text \in HandedTexts :
                 /\ Range(text) \cap DynamicSeparators = {}
                 /\ Len(extract_skills_dynamic(text)) <= 1
                 /\ Len(text) >= 50 => extract_skills_dynamic(text) = <<>>
           /\ (mLocals.model.loaded /\ \E text \in HandedTexts : Len(text) >= 50)
                 => OnLexicalPath

\* a model that would find the first token similar, a job text of 50
\* characters or more and a resume text that gives one token: the model is
\* not asked and the keyword score, here 0, is reported
C29_Witness ==
    /\ mPc = "done"
    /\ mIn.resume_data = ResumeAnn /\ mIn.jd_data = JdSenior
    /\ mLocals.model.loaded /\ mLocals.model.encodes /\ mLocals.model.similar = {1}
    /\ Len(mLocals.jd_text_normalized) >= 50
    /\ Len(extract_skills_dynamic(mLocals.resume_text_normalized)) = 1
    /\ ~ mLocals.overlap_raised
    /\ ~ mLocals.semantic_tier
    /\ mLocals.skill_overlap = keyword_overlap(mLocals.resume_skills, mLocals.jd_skills)
    /\ mOut.result.skill_overlap = 0

----------------------------------------------------------------------------
(* Claims about the two skill lists of one result, under SpecMatch *)

\* C30: in every result, on the semantic tier and on the lexical tier alike,
\* no entry of matching_skills has the normalized form of an entry of
\* missing_skills: a skill is never reported as both matched and missing.
C30_MatchedNeverMissing ==
    mPc = "done"
        => \A i \in 1..Len(mOut.result.matching_skills),
              j \in 1..Len(mOut.result.missing_skills) :
                normalize_skill(mOut.result.matching_skills[i])
                    # normalize_skill(mOut.result.missing_skills[j])

\* a result of the lexical tier with a matched skill and a missing one
C30_Witness ==
    /\ mPc = "done"
    /\ LexicalLists
    /\ mIn.resume_data = ResumeAnn /\ mIn.jd_data = JdDev
    /\ mOut.result.matching_skills = << <<"a","w","s">> >>
    /\ mOut.result.missing_skills = << <<"d","o","c","k","e","r">> >>

----------------------------------------------------------------------------
(* agents/jd_parser_agent.py: JDParsingAgent._extract_required_skills, and  *)
(* the cap of ResumeParsingAgent._extract_skills. list(set(skills)) lists a *)
(* set of str in the order of the hashes of its members, which the hash     *)
(* seed of the process fixes (PYTHONHASHSEED, random unless set): the model *)
(* draws the seed from HashSeeds and takes the listing of seed k to be the  *)
(* distinct skills in discovery order turned left by k places, a part of    *)
(* the listings the interpreter can produce.                                *)

MaxHashSeed == 2

HashSeeds == 0..MaxHashSeed

\* the distinct members of skills, each at its first occurrence
RECURSIVE distinct(_, _)
distinct(skills, kept) ==
    IF skills = <<>> THEN kept
    ELSE distinct(Tail(skills),
                  IF Head(skills) \in Range(kept) THEN kept
                  ELSE Append(kept, Head(skills)))

\* list(set(skills)) in a process of the given hash seed
list_of_set(skills, seed) ==
    LET members == distinct(skills, <<>>)
        n == Len(members)
    IN  [ i \in 1..n |-> members[((i - 1 + seed) % n) + 1] ]

\* JDParsingAgent._extract_required_skills(text) for a text that names no
\* required-skills section (no line holds 'required skills', 'must have',
\* 'essential skills' or 'requirements'): _extract_section returns None and
\* skills is the common skills of line 114
extract_required_skills(text, file, seed) ==
    LET listed == list_of_set(extract_common_skills(text, file), seed)
    IN  SubSeq(listed, 1, Min(30, Len(listed)))

\* the list an extractor cuts, in discovery order: for the resume
\* skills_deduped (lines 138-146), for the job the skills of lines 110-115
\* without their repetitions
discovered(extractor, text, file) ==
    IF extractor = "resume"
    THEN skills_deduped(skills_found(load_skills_master_list("resume", file),
                                     lower(text), <<>>), {}, <<>>)
    ELSE distinct(extract_common_skills(text, file), <<>>)

\* the cap of an extractor (resume line 148, jd line 117)
cap(extractor) == IF extractor = "resume" THEN 50 ELSE 30

----------------------------------------------------------------------------
(* Specification of one call of a capped skill extractor *)

Extractors == {"resume", "required"}

\* ", ".join(skills)
RECURSIVE comma_join(_)
comma_join(skills) ==
    IF skills = <<>> THEN <<>>
    ELSE IF Len(skills) = 1 THEN Head(skills)
    ELSE Head(skills) \o <<",", " ">> \o comma_join(Tail(skills))

\* texts that name no skills section and no required-skills section
CapTexts ==
    ParserTexts
        \cup { comma_join(jd_fallback_list),
               comma_join(SubSeq(jd_fallback_list, 1, 31)) }

CapFiles ==
    VocabularyFiles \cup { [ kind |-> "list", items |-> jd_fallback_list ] }

InitCaps ==
    /\ fIn \in [ extractor : Extractors, file : CapFiles, text : CapTexts,
                 seed : HashSeeds ]
    /\ fOut = <<>>
    /\ fPc = "call"
    /\ SuitIdle
    /\ SkillIdle
    /\ MatchIdle
    /\ BatchIdle
    /\ SessIdle
    /\ EmbedIdle

CallCapped ==
    /\ fPc = "call"
    /\ fOut' = IF master_list_raises(fIn.file)
                THEN [ raised |-> TRUE, skills |-> <<>> ]
                ELSE [ raised |-> FALSE,
                       skills |-> IF fIn.extractor = "resume"
                                  THEN extract_skills(fIn.text, fIn.file)
                                  ELSE extract_required_skills(fIn.text, fIn.file,
                                                               fIn.seed) ]
    /\ fPc' = "done"
    /\ UNCHANGED <<fIn, suitVars, skillVars, matchVars, batchVars, sessVars, embedVars>>

NextCaps == CallCapped

SpecCaps == InitCaps /\ [][NextCaps]_vars

\* the first N entries, in discovery order, of the deduplicated list
FirstDiscovered ==
    LET found == discovered(fIn.extractor, fIn.text, fIn.file)
    IN  SubSeq(found, 1, Min(cap(fIn.extractor), Len(found)))

\* C21: every capped skill list holds the first N skills, in discovery
\* order, of the deduplicated list (30 for a job's required skills, 50 for a
\* resume's skills): which skills survive the cap depends on discovery
\* order alone, so two extractions of one text keep the same skills.
C21_CapKeepsFirstDiscovered ==
    (fPc = "done" /\ ~ fOut.raised)
        => Range(fOut.skills) = Range(FirstDiscovered)

----------------------------------------------------------------------------
(* scoring.py: extract_experience_value. The result is in tenths of a year. *)

IsDigit(c) == c \in Range(Digits)

digit_value(c) == (CHOOSE i \in 1..10 : Digits[i] = c) - 1

\* int() of a run of digits
RECURSIVE int_of(_)
int_of(run) ==
    IF run = <<>> THEN 0
    ELSE 10 * int_of(SubSeq(run, 1, Len(run) - 1)) + digit_value(run[Len(run)])

\* the last position of the longest run of characters of the class that
\* starts at i (i - 1 when text[i] is not of the class): a greedy \d+ or \s*
run_end(text, i, class) ==
    CHOOSE j \in (i - 1)..Len(text) :
        /\ \A k \in i..j : text[k] \in class
        /\ j = Len(text) \/ text[j + 1] \notin class

\* lines 365-366
training_terms ==
    { <<"i","n","t","e","r","n">>,
      <<"i","n","t","e","r","n","s","h","i","p">>,
      <<"f","r","e","s","h","e","r">>,
      <<"f","r","e","s","h">>,
      <<"t","r","a","i","n","e","e">>,
      <<"e","n","t","r","y"," ","l","e","v","e","l">>,
      <<"e","n","t","r","y","-","l","e","v","e","l">>,
      <<"s","t","u","d","e","n","t">>,
      <<"t","r","a","i","n","i","n","g">> }

\* line 370
no_experience_terms ==
    { <<"n","o"," ","e","x","p","e","r","i","e","n","c","e">>,
      <<"0"," ","y","e","a","r","s">>,
      <<"z","e","r","o"," ","e","x","p","e","r","i","e","n","c","e">> }

\* re.search(r'(\d+)\s*[-ENDASH]\s*(\d+)', text) matches from position i: the
\* two groups, or <<>>
range_at(text, i) ==
    IF i > Len(text) \/ ~ IsDigit(text[i]) THEN <<>>
    ELSE LET d1 == run_end(text, i, Range(Digits))
             s1 == run_end(text, d1 + 1, Whitespace)
         IN  IF s1 + 1 > Len(text) \/ text[s1 + 1] \notin {"-", "ENDASH"}
             THEN <<>>
             ELSE LET s2 == run_end(text, s1 + 2, Whitespace)
                  IN  IF s2 + 1 > Len(text) \/ ~ IsDigit(text[s2 + 1])
                      THEN <<>>
                      ELSE << SubSeq(text, i, d1),
                              SubSeq(text, s2 + 1,
                                     run_end(text, s2 + 1, Range(Digits))) >>

\* the leftmost match of the range pattern (line 374), or <<>>
range_match(text) ==
    LET starts == { i \in 1..Len(text) : range_at(text, i) # <<>> }
    IN  IF starts = {} THEN <<>>
        ELSE range_at(text, CHOOSE i \in starts : \A j \in starts : i <= j)

\* group 1 of re.search(r'(\d+)\+?', text) (line 384): the first run of
\* digits, or <<>>
single_match(text) ==
    LET starts == { i \in 1..Len(text) : IsDigit(text[i]) }
    IN  IF starts = {} THEN <<>>
        ELSE LET i == CHOOSE i \in starts : \A j \in starts : i <= j
             IN  SubSeq(text, i, run_end(text, i, Range(Digits)))

extract_experience_value(experience_text) ==
    IF experience_text = <<>> THEN 0
    ELSE LET text_lower == lower(experience_text)
         IN  IF \E term \in training_terms : Contains(text_lower, term)
             THEN 5
             ELSE IF \E word \in no_experience_terms : Contains(text_lower, word)
             THEN 0
             ELSE IF range_match(text_lower) # <<>>
             THEN LET min_exp == int_of(range_match(text_lower)[1])
                      max_exp == int_of(range_match(text_lower)[2])
                  IN  IF max_exp <= 3 THEN 10 * min_exp + 5
                      ELSE 5 * (min_exp + max_exp)
             ELSE IF single_match(text_lower) # <<>>
             THEN 10 * int_of(single_match(text_lower))
             ELSE 0

----------------------------------------------------------------------------
(* Specification of one call of extract_experience_value(experience_text) *)

MaxYears == 20

\* texts with the number n alone, bare or followed by '+'
YearTexts(n) ==
    { int_str(n),
      int_str(n) \o <<"+">>,
      int_str(n) \o <<" ","y","e","a","r","s">>,
      int_str(n) \o <<"+"," ","y","e","a","r","s">>,
      <<"O","v","e","r"," ">> \o int_str(n) \o <<" ","y","r","s">>,
      int_str(n) \o <<" ","y","e","a","r","s"," ","o","f"," ","J","a","v","a">> }

\* no text, texts with a training term, with no number and with a range
OtherYearTexts ==
    { <<>>,
      <<"I","n","t","e","r","n","s","h","i","p",","," ","1","0"," ","w","e","e","k","s">>,
      <<"N","o"," ","e","x","p","e","r","i","e","n","c","e">>,
      <<"s","e","v","e","r","a","l"," ","y","e","a","r","s">>,
      <<"0","-","2"," ","y","e","a","r","s">>,
      <<"3"," ","ENDASH"," ","5"," ","y","e","a","r","s">>,
      <<"1","0"," ","-","1","5"," ","y","r","s">> }

InitYears ==
    /\ fIn \in [ experience_text :
                   OtherYearTexts \cup UNION { YearTexts(n) : n \in 1..MaxYears } ]
    /\ fOut = <<>>
    /\ fPc = "call"
    /\ SuitIdle
    /\ SkillIdle
    /\ MatchIdle
    /\ BatchIdle
    /\ SessIdle
    /\ EmbedIdle

CallExtractExperience ==
    /\ fPc = "call"
    /\ fOut' = [ value |-> extract_experience_value(fIn.experience_text) ]
    /\ fPc' = "done"
    /\ UNCHANGED <<fIn, suitVars, skillVars, matchVars, batchVars, sessVars, embedVars>>

NextYears == CallExtractExperience

SpecYears == InitYears /\ [][NextYears]_vars

\* the text holds no training term and no range, and its only number is n,
\* bare or followed by '+'
OnlyNumber(text, n) ==
    /\ ~ \E term \in training_terms : Contains(lower(text), term)
    /\ range_match(lower(text)) = <<>>
    /\ \E i \in 1..Len(text) :
          /\ IsDigit(text[i])
          /\ SubSeq(text, i, run_end(text, i, Range(Digits))) = int_str(n)
          /\ \A k \in 1..Len(text) :
                IsDigit(text[k]) => k \in i..run_end(text, i, Range(Digits))

\* C22: for a text with no entry-level or training term and no range, whose
\* only number is a positive integer N, bare or followed by '+', the
\* extracted experience is N years, for every N, multiples of 10 included.
C22_SingleNumber ==
    fPc = "done"
        => \A n \in 1..MaxYears :
              OnlyNumber(fIn.experience_text, n) => fOut.value = 10 * n

----------------------------------------------------------------------------
(* Specification of one call of extract_skills_dynamic(text) *)

MaxParts == 2

\* n letters
letters(n) == [ i \in 1..n |-> "x" ]

\* tokens of 0, 1, 2, 3, 49, 50 and 51 characters, stop words, tokens with
\* blanks around them and a token with a character the cleaning replaces
DynamicTokens ==
    { <<>>,
      <<"R">>,
      <<"G","o">>,
      <<"o","r">>,
      <<"S","Q","L">>,
      <<"a","n","d">>,
      <<" ","C","+","+"," ">>,
      <<" ","a","i"," ">>,
      <<"T","o","o","l","s",":"," ","G","i","t">>,
      letters(49),
      letters(50),
      letters(51) }

RECURSIVE joined(_, _)
joined(parts, sep) ==
    IF Len(parts) = 1 THEN Head(parts)
    ELSE Head(parts) \o <<sep>> \o joined(Tail(parts), sep)

DynamicInputs ==
    { joined(parts, sep) :
        parts \in UNION { [ 1..n -> DynamicTokens ] : n \in 1..MaxParts },
        sep \in {",", "NL", "|"} }

InitDynamic ==
    /\ fIn \in [ text : DynamicInputs ]
    /\ fOut = <<>>
    /\ fPc = "call"
    /\ SuitIdle
    /\ SkillIdle
    /\ MatchIdle
    /\ BatchIdle
    /\ SessIdle
    /\ EmbedIdle

CallExtractSkillsDynamic ==
    /\ fPc = "call"
    /\ fOut' = [ skills |-> extract_skills_dynamic(fIn.text) ]
    /\ fPc' = "done"
    /\ UNCHANGED <<fIn, suitVars, skillVars, matchVars, batchVars, sessVars, embedVars>>

NextDynamic == CallExtractSkillsDynamic

SpecDynamic == InitDynamic /\ [][NextDynamic]_vars

\* the separator-delimited tokens of the text, trimmed, as the extractor sees
\* them: lower case, every character outside a-z, 0-9, white space and
\* , . - & + / replaced by a blank
TrimmedTokens(text) ==
    LET cleaned == [ i \in 1..Len(text) |->
                       IF \/ LowerChar(text[i]) \in LowerAlnum
                          \/ LowerChar(text[i]) \in Whitespace
                          \/ LowerChar(text[i]) \in {",", ".", "-", "&", "+", "/"}
                       THEN LowerChar(text[i]) ELSE " " ]
        parts == split(cleaned, DynamicSeparators)
    IN  [ i \in 1..Len(parts) |-> strip(parts[i]) ]

\* the tokens whose length is within low..high and that are no stop word
TokensWithin(text, low, high) ==
    LET IsKept(token) == Len(token) \in low..high /\ token \notin StopWords
    IN  SelectSeq(TrimmedTokens(text), IsKept)

\* C23 as stated: the dynamic extractor keeps every token of trimmed length 2
\* to 50 inclusive that is no stop word, and drops every other token.
C23_TwoToFifty ==
    fPc = "done" => fOut.skills = TokensWithin(fIn.text, 2, 50)

\* C23, amended: the dynamic extractor keeps every token of trimmed length 3
\* to 49 inclusive that is no stop word, and drops every other token.
C23_ThreeToFortyNine ==
    fPc = "done" => fOut.skills = TokensWithin(fIn.text, 3, 49)

\* a token of 49 characters is kept next to one of 2 characters that is
\* dropped
C23_Witness ==
    /\ fPc = "done"
    /\ fIn.text = <<"G","o">> \o <<",">> \o letters(49)
    /\ fOut.skills = << letters(49) >>

----------------------------------------------------------------------------
(* models/sentence_transformer_model.py: get_sentence_transformer_model     *)
(* under @lru_cache(maxsize=1), as main.py and MatchingAgent.match call it. *)
(* eCache is the one entry of the cache, <<>> or a record of the key of the *)
(* call that filled it and the instance it holds; the key of a call is the  *)
(* tuple of its arguments, "()" for get_sentence_transformer_model() and    *)
(* "(None,)" for get_sentence_transformer_model(model_name) with            *)
(* model_name = None, which is how generate_embeddings calls it (line 58).  *)
(* An instance is a record of its number in the order of construction and   *)
(* the name of the model it loaded: eBuilt is the number constructed so     *)
(* far, eHeld the instances the calls have returned, eCalls the match calls *)
(* finished.                                                                *)

MaxMatchCalls == 2

\* what SentenceTransformer(...) does in lines 29-38: the preferred model
\* loads, only the lighter one does, or neither
Loads == {"model", "fallback", "raises"}

\* one call with the given key: raised, the instance returned, the cache and
\* the number of instances afterwards. An exception is not cached.
get_sentence_transformer_model(key, cache, built, load) ==
    IF cache # <<>> /\ cache.key = key
    THEN [ raised |-> FALSE, model |-> cache.model, cache |-> cache, built |-> built ]
    ELSE IF load = "raises"
    THEN [ raised |-> TRUE, model |-> <<>>, cache |-> cache, built |-> built ]
    ELSE LET model == [ instance |-> built + 1,
                        name |-> IF load = "model" THEN "all-mpnet-base-v2"
                                 ELSE "all-MiniLM-L6-v2" ]
         IN  [ raised |-> FALSE, model |-> model,
               cache |-> [ key |-> key, model |-> model ], built |-> built + 1 ]

held_after(call) == IF call.raised THEN eHeld ELSE eHeld \cup {call.model}

InitEmbed ==
    /\ eCache = <<>>
    /\ eBuilt = 0
    /\ eHeld = {}
    /\ eCalls = 0
    /\ ePc = "start"
    /\ SuitIdle
    /\ SkillIdle
    /\ MatchIdle
    /\ BatchIdle
    /\ FnIdle
    /\ SessIdle

\* main.py lines 94-100: generate_embeddings("test") when the application
\* starts
Preload ==
    /\ ePc = "start"
    /\ \E load \in Loads :
          LET call == get_sentence_transformer_model("(None,)", eCache, eBuilt, load)
          IN  /\ eCache' = call.cache
              /\ eBuilt' = call.built
              /\ eHeld' = held_after(call)
    /\ ePc' = "idle"
    /\ UNCHANGED <<eCalls, suitVars, skillVars, matchVars, batchVars, fnVars, sessVars>>

\* matching_agent.py lines 98-102: model = get_sentence_transformer_model()
MatchGetModel ==
    /\ ePc \in {"start", "idle"}
    /\ eCalls < MaxMatchCalls
    /\ \E load \in Loads :
          LET call == get_sentence_transformer_model("()", eCache, eBuilt, load)
          IN  /\ eCache' = call.cache
              /\ eBuilt' = call.built
              /\ eHeld' = held_after(call)
    /\ ePc' = "embed_resume"
    /\ UNCHANGED <<eCalls, suitVars, skillVars, matchVars, batchVars, fnVars, sessVars>>

\* line 107: generate_embeddings(resume_text_normalized, chunk_size=300); an
\* exception skips line 108 (lines 109-112)
MatchEmbedResume ==
    /\ ePc = "embed_resume"
    /\ \E load \in Loads :
          LET call == get_sentence_transformer_model("(None,)", eCache, eBuilt, load)
          IN  /\ eCache' = call.cache
              /\ eBuilt' = call.built
              /\ eHeld' = held_after(call)
              /\ ePc' = IF call.raised THEN "idle" ELSE "embed_jd"
              /\ eCalls' = IF call.raised THEN eCalls + 1 ELSE eCalls
    /\ UNCHANGED <<suitVars, skillVars, matchVars, batchVars, fnVars, sessVars>>

\* line 108: generate_embeddings(jd_text_normalized, chunk_size=300), and the
\* rest of match, which loads nothing
MatchEmbedJd ==
    /\ ePc = "embed_jd"
    /\ \E load \in Loads :
          LET call == get_sentence_transformer_model("(None,)", eCache, eBuilt, load)
          IN  /\ eCache' = call.cache
              /\ eBuilt' = call.built
              /\ eHeld' = held_after(call)
    /\ ePc' = "idle"
    /\ eCalls' = eCalls + 1
    /\ UNCHANGED <<suitVars, skillVars, matchVars, batchVars, fnVars, sessVars>>

NextEmbed ==
    \/ Preload
    \/ MatchGetModel
    \/ MatchEmbedResume
    \/ MatchEmbedJd

SpecEmbed == InitEmbed /\ [][NextEmbed]_vars

\* C24: the embedding model is a process-wide singleton: across any sequence
\* of match calls, which obtain it through get_sentence_transformer_model()
\* and through generate_embeddings, the model is constructed at most once and
\* every later call returns the cached instance.
C24_ModelSingleton ==
    eBuilt <= 1 /\ Cardinality(eHeld) <= 1

====
